---- MODULE Spec2Model ----
(***************************************************************************)
(* Model of the review-template round trip of jordanlewis/re               *)
(* (src/review.go): the encoder loop of makeReviewTemplate, which copies   *)
(* `git show` output into the template and inserts the existing inline     *)
(* comments, and the decoder parseFile, which re-scans the edited template *)
(* and extracts the top-level body and the new draft comments.             *)
(*                                                                         *)
(* Documents are real strings: byte offsets, slices and prefixes are       *)
(* computed on them as the Go code computes them.                          *)
(*                                                                         *)
(* Further specifications cover the concurrent fetch phase of              *)
(* makeReviewTemplate (SpecFetch), the submission loop `review` with       *)
(* parseFileUntilSuccess and postComments (SpecLoop), and wrap (SpecWrap). *)
(***************************************************************************)
EXTENDS Integers, Sequences, FiniteSets, TLC

VARIABLES
    \* ---- makeReviewTemplate (encoder loop) ----
    diffBuf,             \* the `git show` output
    reviewComments,      \* the existing-comment index (commitComments)
    diffLines,           \* strings.SplitAfter(diffBuf.String(), "\n")
    encIdx,              \* index of the next element of diffLines
    buf,                 \* the template under construction
    encCommit, encFile, encNum, encFoundFirstHunk,   \* encoder cursor
    lookups,             \* keys passed to reviewComments.get, in order
    encTrace,            \* encoder cursor after each diff line
    origin,              \* per template line: index of the diff line it copies, or 0
    \* ---- parseFile (decoder) ----
    dat,                 \* the document handed to parseFile
    lines,               \* strings.SplitAfter(dat, "\n")
    idx,                 \* index of the next element of lines
    off, commit, file, num, foundFirstHunk,
    commentStart, lastCommentStart, topLevelCommentStart,
    lastInlineCommentId,
    review,              \* the PullRequestReviewRequest under construction
    err,                 \* parseFile's error result ("nil" or the error)
    \* ---- makeReviewTemplate (fetch phase) ----
    wg, showWg,          \* the two sync.WaitGroup counters
    pr,                  \* *github.PullRequest, Nil until fetched
    gpc,                 \* position of each of the six goroutines
    reviews,             \* fetched reviews
    issueComments,       \* fetched issue comments
    page,                \* rest of the page of inline comments being put
    putLog,              \* every comment passed to reviewComments.put, in order
    topLevelComments,    \* reviews and issue comments, sorted by creation time
    \* ---- review / parseFileUntilSuccess / postComments ----
    tmpFile,             \* the temporary document file: Nil once removed
    request,             \* review's `request`
    editReview,          \* review's `editReview`
    text,                \* the last line read from stdin ("EOF" at end of input)
    nInputs,             \* lines read from stdin so far
    redraft,             \* the <pr>.redraft file, Nil while not written
    posted,              \* requests passed to CreateReview
    lastDecoded,         \* result of the most recent successful parseFile
    editorRuns,          \* number of editor invocations
    decodeRuns,          \* number of parseFile calls
    \* ---- wrap ----
    wrapT, wrapPrefix,   \* wrap's arguments
    wrapOut,             \* wrap's result, Nil before the call
    pc                   \* position of the main goroutine

encVars == <<diffBuf, reviewComments, diffLines, encIdx, buf, encCommit, encFile,
             encNum, encFoundFirstHunk, lookups, encTrace, origin>>
decVars == <<dat, lines, idx, off, commit, file, num, foundFirstHunk,
             commentStart, lastCommentStart, topLevelCommentStart,
             lastInlineCommentId, review, err>>
fetchVars == <<wg, showWg, pr, gpc, reviews, issueComments, page, putLog,
               topLevelComments>>
loopVars == <<tmpFile, request, editReview, text, nInputs, redraft, posted,
              lastDecoded, editorRuns, decodeRuns>>
wrapVars == <<wrapT, wrapPrefix, wrapOut>>
\* what neither the encoder loop nor parseFile touches
restVars == <<fetchVars, loopVars, wrapVars>>
vars == <<encVars, decVars, restVars, pc>>

-----------------------------------------------------------------------------
(* Bounds *)

MaxTail == 3      \* free lines of a document after its optional preamble
MaxBody == 3      \* diff-body lines of an anchoring document
MaxRegion == 3    \* lines typed between the top-level markers
MaxDiffTail == 2  \* diff lines after the last hunk header of `git show` output
MaxExisting == 1  \* existing inline comments fetched into the index
MaxPut == 2       \* inline comments listed during the fetch phase
MaxTopLevel == 1  \* reviews, and issue comments, listed during the fetch phase
MaxWrapParts == 3 \* pieces a text handed to wrap is made of
MaxInputs == 3    \* lines read from stdin by the submission loop

-----------------------------------------------------------------------------
(* Strings *)

Char(s, i) == SubSeq(s, i, i)

HasPrefix(s, p) == Len(s) >= Len(p) /\ SubSeq(s, 1, Len(p)) = p

RECURSIVE Repeat(_, _)
Repeat(s, n) == IF n = 0 THEN "" ELSE s \o Repeat(s, n - 1)

RECURSIVE TrimRight(_, _)
TrimRight(s, c) ==
    IF Len(s) > 0 /\ Char(s, Len(s)) = c
    THEN TrimRight(SubSeq(s, 1, Len(s) - 1), c)
    ELSE s

\* least element of a non-empty set of integers
MinOf(S) == CHOOSE i \in S : \A j \in S : i <= j

\* greatest element of a non-empty set of integers
MaxOf(S) == CHOOSE i \in S : \A j \in S : j <= i

\* index of the first c in s at or after start, or 0
IndexFrom(s, start, c) ==
    LET S == {i \in start..Len(s) : Char(s, i) = c}
    IN IF S = {} THEN 0 ELSE MinOf(S)

\* the elements of a finite set of integers in increasing order
RECURSIVE Sorted(_)
Sorted(S) == IF S = {} THEN <<>>
             ELSE LET m == MinOf(S) IN <<m>> \o Sorted(S \ {m})

\* strings.SplitAfter(s, "\n"): every piece but the last ends with "\n"; the
\* last piece is the (possibly empty) remainder.
SplitAfter(s) ==
    LET nl == Sorted({i \in 1..Len(s) : Char(s, i) = "\n"})
        k == Len(nl)
    IN [j \in 1..(k + 1) |->
           SubSeq(s, IF j = 1 THEN 1 ELSE nl[j - 1] + 1,
                     IF j = k + 1 THEN Len(s) ELSE nl[j])]

\* the part of s[a..b] that exists
Sub(s, a, b) == IF a > Len(s) THEN ""
                ELSE SubSeq(s, a, IF b > Len(s) THEN Len(s) ELSE b)

\* Go's s[a:b]; the slice expression panics outside 0 <= a <= b <= len(s).
SliceOK(s, a, b) == 0 <= a /\ a <= b /\ b <= Len(s)
Slice(s, a, b) == SubSeq(s, a + 1, b)

-----------------------------------------------------------------------------
(* Markers and line patterns *)

topLevelStartMarker == "# ------ BEGIN  TOP-LEVEL REVIEW COMMENTS ----- #"
topLevelEndMarker   == "# ------ END OF TOP-LEVEL REVIEW COMMENTS ----- #"
inlineStartMarker   == Repeat("*", 79) \o "v"
inlineEndMarker     == Repeat("*", 79) \o "^"
reviewSuffix        == "\n<!-- review by re -->"

diffStart == "diff --git "
hunkStart == "@@"
commitPrefix == "commit "
filePrefix == "+++ b/"

\* commitStart = `^commit (.*)$`: the line holds no "\n", so the pattern
\* matches exactly the lines with the prefix and captures the rest.
CommitMatches(line) == HasPrefix(line, commitPrefix)
CommitCapture(line) == SubSeq(line, Len(commitPrefix) + 1, Len(line))

\* fileStart = `^\+\+\+ b\/(.*)$`
FileMatches(line) == HasPrefix(line, filePrefix)
FileCapture(line) == SubSeq(line, Len(filePrefix) + 1, Len(line))

Digits == {"0", "1", "2", "3", "4", "5", "6", "7", "8", "9"}
WordChars == Digits \cup {"_", "a", "b", "c", "d", "e", "f", "g", "h", "i", "j",
    "k", "l", "m", "n", "o", "p", "q", "r", "s", "t", "u", "v", "w", "x", "y",
    "z", "A", "B", "C", "D", "E", "F", "G", "H", "I", "J", "K", "L", "M", "N",
    "O", "P", "Q", "R", "S", "T", "U", "V", "W", "X", "Y", "Z"}

\* first index >= i of s whose character is not accepted (Len(s)+1 if none)
SpanEnd(s, i, set, negated) ==
    MinOf({j \in i..Len(s) : (Char(s, j) \in set) = negated} \cup {Len(s) + 1})

threadHead == "* Comment by @"
threadMid == ") thread "

\* threadId = `^\* Comment by @\w+ \([^\)]+\) thread (\d+)$`.
\* ThreadIdDigitsAt(line) is the index of the captured digit string, or 0 when
\* the line does not match.  Each repetition is followed by a character it
\* cannot contain, so the leftmost-first match is found by one forward scan.
ThreadIdDigitsAt(line) ==
    IF ~HasPrefix(line, threadHead) THEN 0
    ELSE LET a == Len(threadHead) + 1
             b == SpanEnd(line, a, WordChars, FALSE)
         IN IF b = a \/ Sub(line, b, b + 1) # " (" THEN 0
            ELSE LET c == b + 2
                     d == SpanEnd(line, c, {")"}, TRUE)
                 IN IF d = c \/ Sub(line, d, d + Len(threadMid) - 1) # threadMid
                    THEN 0
                    ELSE LET e == d + Len(threadMid)
                             f == SpanEnd(line, e, Digits, FALSE)
                         IN IF f > e /\ f = Len(line) + 1 THEN e ELSE 0

ThreadIdMatches(line) == ThreadIdDigitsAt(line) # 0
ThreadIdCapture(line) == SubSeq(line, ThreadIdDigitsAt(line), Len(line))

\* strconv.Atoi on a non-empty digit string.  The value is kept as its
\* decimal digits without leading zeros, so that 64-bit values are exact.
maxInt == "9223372036854775807"

RECURSIVE StripZeros(_)
StripZeros(s) == IF Len(s) > 1 /\ Char(s, 1) = "0"
                 THEN StripZeros(SubSeq(s, 2, Len(s))) ELSE s

DigitVal(c) == CASE c = "0" -> 0 [] c = "1" -> 1 [] c = "2" -> 2 [] c = "3" -> 3
                 [] c = "4" -> 4 [] c = "5" -> 5 [] c = "6" -> 6 [] c = "7" -> 7
                 [] c = "8" -> 8 [] c = "9" -> 9

\* a > b for digit strings of equal length
RECURSIVE DigitsGreater(_, _)
DigitsGreater(a, b) ==
    IF Len(a) = 0 THEN FALSE
    ELSE IF Char(a, 1) # Char(b, 1) THEN DigitVal(Char(a, 1)) > DigitVal(Char(b, 1))
    ELSE DigitsGreater(SubSeq(a, 2, Len(a)), SubSeq(b, 2, Len(b)))

AtoiFails(s) ==
    LET t == StripZeros(s)
    IN Len(t) > Len(maxInt) \/ (Len(t) = Len(maxInt) /\ DigitsGreater(t, maxInt))

Atoi(s) == StripZeros(s)

-----------------------------------------------------------------------------
(* parseFile (decoder) *)

Nil == <<>>                \* a nil pointer; <<v>> is a pointer to v
Ptr(v) == <<v>>

makeDraftReviewComment(path, position) ==
    [Path |-> Ptr(path), Position |-> Ptr(position), Body |-> Nil]

\* the locals of parseFile as declared before its loop
InitLocals ==
    [off |-> 0, commit |-> "", file |-> "", num |-> 0, foundFirstHunk |-> FALSE,
     commentStart |-> -1, lastCommentStart |-> -1, topLevelCommentStart |-> 0,
     lastInlineCommentId |-> "0",
     review |-> [Body |-> Nil, CommitID |-> Nil, Comments |-> <<>>],
     err |-> "nil", ctl |-> "loop"]

\* offset of the last byte of the top-level region, computed at the end marker
TopLevelCommentEnd(o, line) == o - Len(line) - 2

\* the end marker keeps the region only if it is not empty
TopLevelNonEmpty(start, end) == end > start

\* offset at which a comment opened on `line` starts
NewCommentStart(o, line) == o - Len(line) - 1

\* end of the comment body for a line ending at offset o
CommentEnd(o) == o - 1

IsDiffChar(c) == c \in {"+", "-", " ", "@"}
\* the echo test without the tab case
IsOldCommentChar_StarOnly(c) == c = "*"
IsOldCommentChar(c) == c \in {"*", "\t"}

\* the top-level marker branch of the loop visited with the end marker
TopLevelEnd(s, line) ==
    LET end == TopLevelCommentEnd(s.off, line)
    IN IF TopLevelNonEmpty(s.topLevelCommentStart, end)
       THEN IF SliceOK(dat, s.topLevelCommentStart, end)
            THEN [s EXCEPT !.review.Body =
                               Ptr(Slice(dat, s.topLevelCommentStart, end) \o reviewSuffix),
                           !.topLevelCommentStart = 0]
            ELSE [s EXCEPT !.ctl = "panic"]
       ELSE [s EXCEPT !.topLevelCommentStart = 0]

\* the thread-id branch with the conversion error dropped
ThreadIdLine_ErrorIgnored(s, line) ==
    [s EXCEPT !.lastInlineCommentId = Atoi(ThreadIdCapture(line))]

\* the thread-id branch: strconv.Atoi of the captured digits
ThreadIdLine(s, line) ==
    IF AtoiFails(ThreadIdCapture(line))
    THEN [s EXCEPT !.lastInlineCommentId = maxInt, !.err = "value out of range",
                   !.ctl = "error"]
    ELSE [s EXCEPT !.lastInlineCommentId = Atoi(ThreadIdCapture(line))]

\* "Process commit header."
CommitHeader(s, line) ==
    [s EXCEPT !.foundFirstHunk = FALSE, !.commit = CommitCapture(line),
              !.review.CommitID = Ptr(CommitCapture(line))]

\* the diff header branch without the reset
DiffHeader_NoReset(s) == s

\* "Process diff header."
DiffHeader(s) == [s EXCEPT !.foundFirstHunk = FALSE]

\* "Process file header."
FileHeader(s, line) == [s EXCEPT !.file = FileCapture(line)]

\* the first hunk header branch without `num = 0`
BeforeFirstHunk_NoZero(s, line) ==
    IF HasPrefix(line, hunkStart) THEN [s EXCEPT !.foundFirstHunk = TRUE] ELSE s

\* "Process first hunk header."
BeforeFirstHunk(s, line) ==
    IF HasPrefix(line, hunkStart)
    THEN [s EXCEPT !.foundFirstHunk = TRUE, !.num = 0]
    ELSE s

\* the new comment with the reply branch filled in: inside a thread it
\* carries neither path nor position
NewComment_Reply(s) ==
    IF s.lastInlineCommentId # "0"
    THEN [Path |-> Nil, Position |-> Nil, Body |-> Nil]
    ELSE makeDraftReviewComment(s.file, s.num)

\* `comment := makeDraftReviewComment(file, num)`; the body of
\* `if lastInlineCommentId != 0` is commented out and changes nothing
NewComment(s) == makeDraftReviewComment(s.file, s.num)

\* "We found a comment!"
FoundComment(s, line) ==
    LET start == IF s.lastCommentStart = -1
                 THEN NewCommentStart(s.off, line) ELSE s.lastCommentStart
        comments == IF s.lastCommentStart = -1
                    THEN Append(s.review.Comments, NewComment(s))
                    ELSE s.review.Comments
    IN IF Len(comments) = 0 \/ ~SliceOK(dat, start, CommentEnd(s.off))
       THEN [s EXCEPT !.ctl = "panic"]
       ELSE [s EXCEPT !.commentStart = start,
                      !.review.Comments =
                          [comments EXCEPT ![Len(comments)].Body =
                               Ptr(Slice(dat, start, CommentEnd(s.off)))]]

\* the region test that never finds the scan inside the region
InTopLevelRegion_Never(s) == FALSE

\* `topLevelCommentStart != 0`: a begin marker is open
InTopLevelRegion(s) == s.topLevelCommentStart # 0

\* one iteration of `for _, line := range strings.SplitAfter(dat, "\n")`
LoopBody(s0, raw) ==
    LET s1 == [s0 EXCEPT !.lastCommentStart = s0.commentStart, !.commentStart = -1]
    IN IF raw = "" THEN [s1 EXCEPT !.ctl = "break"]
       ELSE
       LET s == [s1 EXCEPT !.off = s1.off + Len(raw)]
           line == TrimRight(raw, "\n")
       IN IF line = topLevelStartMarker THEN [s EXCEPT !.topLevelCommentStart = s.off]
          ELSE IF line = topLevelEndMarker THEN TopLevelEnd(s, line)
          ELSE IF InTopLevelRegion(s) THEN s
          ELSE IF line = inlineStartMarker THEN s
          ELSE IF line = inlineEndMarker THEN [s EXCEPT !.lastInlineCommentId = "0"]
          ELSE IF ThreadIdMatches(line) THEN ThreadIdLine(s, line)
          ELSE IF CommitMatches(line) THEN CommitHeader(s, line)
          ELSE IF HasPrefix(line, diffStart) THEN DiffHeader(s)
          ELSE IF FileMatches(line) THEN FileHeader(s, line)
          ELSE IF ~s.foundFirstHunk THEN BeforeFirstHunk(s, line)
          ELSE IF Len(line) = 0 THEN s
          ELSE IF IsDiffChar(Char(line, 1)) THEN [s EXCEPT !.num = s.num + 1]
          ELSE IF IsOldCommentChar(Char(line, 1)) THEN s
          ELSE FoundComment(s, line)

Locals ==
    [off |-> off, commit |-> commit, file |-> file, num |-> num,
     foundFirstHunk |-> foundFirstHunk, commentStart |-> commentStart,
     lastCommentStart |-> lastCommentStart,
     topLevelCommentStart |-> topLevelCommentStart,
     lastInlineCommentId |-> lastInlineCommentId, review |-> review,
     err |-> err, ctl |-> "loop"]

SetLocals(s) ==
    /\ off' = s.off /\ commit' = s.commit /\ file' = s.file /\ num' = s.num
    /\ foundFirstHunk' = s.foundFirstHunk /\ commentStart' = s.commentStart
    /\ lastCommentStart' = s.lastCommentStart
    /\ topLevelCommentStart' = s.topLevelCommentStart
    /\ lastInlineCommentId' = s.lastInlineCommentId
    /\ review' = s.review /\ err' = s.err

\* parseFile is entered with the bytes of the document
ParseEnter(b) ==
    /\ dat' = b
    /\ lines' = SplitAfter(b)
    /\ idx' = 1
    /\ SetLocals(InitLocals)

\* one line of the document is scanned
ParseLine ==
    /\ pc = "parse"
    /\ idx <= Len(lines)
    /\ LET s == LoopBody(Locals, lines[idx])
       IN /\ SetLocals(s)
          /\ idx' = idx + 1
          /\ pc' = CASE s.ctl = "loop" -> "parse"
                     [] s.ctl = "break" -> "done"
                     [] s.ctl = "error" -> "done"
                     [] s.ctl = "panic" -> "panic"
    /\ UNCHANGED <<dat, lines, encVars, restVars>>

\* the range is exhausted: `return review, nil`
ParseReturn ==
    /\ pc = "parse"
    /\ idx > Len(lines)
    /\ pc' = "done"
    /\ UNCHANGED <<decVars, encVars, restVars>>

-----------------------------------------------------------------------------
(* Existing-comment index (commitComments) *)

\* c[commit][file][line], nil when one of the three maps lacks its key
Get(c, cm, f, line) ==
    IF cm \in DOMAIN c
    THEN IF f \in DOMAIN c[cm]
         THEN IF line \in DOMAIN c[cm][f] THEN c[cm][f][line] ELSE <<>>
         ELSE <<>>
    ELSE <<>>

\* m[k] = v on a Go map
MapSet(m, k, v) == [x \in DOMAIN m \cup {k} |-> IF x = k THEN v ELSE m[x]]

EmptyMap == [x \in {} |-> <<>>]

\* put that inserts the comment in front of the ones stored under its key
Put_Prepend(c, comment) ==
    IF comment.Position = Nil THEN c
    ELSE LET cm == comment.CommitID
             f == comment.Path
             line == comment.Position[1]
             c1 == IF cm \in DOMAIN c THEN c ELSE MapSet(c, cm, EmptyMap)
             c2 == IF f \in DOMAIN c1[cm] THEN c1
                   ELSE MapSet(c1, cm, MapSet(c1[cm], f, EmptyMap))
             old == IF line \in DOMAIN c2[cm][f] THEN c2[cm][f][line] ELSE <<>>
         IN MapSet(c2, cm, MapSet(c2[cm], f,
                       MapSet(c2[cm][f], line, <<comment>> \o old)))

\* commitComments.put
Put(c, comment) ==
    IF comment.Position = Nil THEN c
    ELSE LET cm == comment.CommitID
             f == comment.Path
             line == comment.Position[1]
             c1 == IF cm \in DOMAIN c THEN c ELSE MapSet(c, cm, EmptyMap)
             c2 == IF f \in DOMAIN c1[cm] THEN c1
                   ELSE MapSet(c1, cm, MapSet(c1[cm], f, EmptyMap))
             old == IF line \in DOMAIN c2[cm][f] THEN c2[cm][f][line] ELSE <<>>
         IN MapSet(c2, cm, MapSet(c2[cm], f,
                       MapSet(c2[cm][f], line, Append(old, comment))))

\* the loop `for _, comment := range list { reviewComments.put(comment) }`
RECURSIVE PutAll(_, _)
PutAll(c, list) ==
    IF Len(list) = 0 THEN c ELSE PutAll(Put(c, Head(list)), Tail(list))

-----------------------------------------------------------------------------
(* wrap *)

wrapWidth == 70

\* strings.Replace(t, "\r\n", "\n", -1)
RECURSIVE ReplaceCRLF(_)
ReplaceCRLF(t) ==
    LET S == {i \in 1..(Len(t) - 1) : SubSeq(t, i, i + 1) = "\r\n"}
    IN IF S = {} THEN t
       ELSE LET i == MinOf(S)
            IN (SubSeq(t, 1, i - 1) \o "\n") \o ReplaceCRLF(SubSeq(t, i + 2, Len(t)))

\* strings.Split(t, "\n")
RECURSIVE Split(_)
Split(t) ==
    LET i == IndexFrom(t, 1, "\n")
    IN IF i = 0 THEN <<t>>
       ELSE <<SubSeq(t, 1, i - 1)>> \o Split(SubSeq(t, i + 1, Len(t)))

\* the index of the first space instead of the last
LastIndexSpace_First(s) ==
    LET S == {i \in 1..Len(s) : Char(s, i) = " "}
    IN IF S = {} THEN -1 ELSE (CHOOSE i \in S : \A j \in S : i <= j) - 1

\* strings.LastIndex(s, " "), 0-based, -1 when absent
LastIndexSpace(s) ==
    LET S == {i \in 1..Len(s) : Char(s, i) = " "}
    IN IF S = {} THEN -1 ELSE (CHOOSE i \in S : \A j \in S : j <= i) - 1

\* the inner loop `for len(s) > 70 { ... }` followed by `out += s`
RECURSIVE WrapLine(_, _)
WrapLine(s, prefix) ==
    IF Len(s) > wrapWidth
    THEN LET i0 == LastIndexSpace(SubSeq(s, 1, wrapWidth))
             i == (IF i0 < 0 THEN wrapWidth - 1 ELSE i0) + 1
         IN ((SubSeq(s, 1, i) \o "\n") \o prefix)
                \o WrapLine(SubSeq(s, i + 1, Len(s)), prefix)
    ELSE s

RECURSIVE WrapLines(_, _, _)
WrapLines(ls, i, prefix) ==
    IF i > Len(ls) THEN ""
    ELSE ((IF i > 1 THEN "\n" \o prefix ELSE "") \o WrapLine(ls[i], prefix))
            \o WrapLines(ls, i + 1, prefix)

wrap(t, prefix) == WrapLines(Split(ReplaceCRLF(t)), 1, prefix)

-----------------------------------------------------------------------------
(* makeReviewTemplate: printPR and the encoder loop *)

RECURSIVE IntToStr(_)
IntToStr(n) ==
    LET d == SubSeq("0123456789", (n % 10) + 1, (n % 10) + 1)
    IN IF n < 10 THEN d ELSE IntToStr(n \div 10) \o d

\* The lines of printPR's output that the decoder can react to, for a pull
\* request without description and discussion: the synthetic commit line, one
\* metadata line, and the instruction block with the two top-level markers.
\* The lines left out (further metadata, `git diff --stat`, "#" instructions)
\* match no marker or header pattern and precede the first hunk.
printHead ==
    "commit 0000000000000000000000000000000000000000\n"
    \o "Author: u <>\n"

printTail ==
    "\n"
    \o "\n# Add top-level review comments by typing between the marker lines below.\n"
    \o "# Don't modify the markers!\n"
    \o "\n"
    \o topLevelStartMarker \o "\n"
    \o topLevelEndMarker \o "\n"
    \o "\n"
    \o "# Pre-existing comments are prefixed with *.\n"
    \o "\n"

\* strings.TrimSpace
WhiteSpace == {" ", "\t", "\n", "\r"}
TrimSpace(t) ==
    LET S == {i \in 1..Len(t) : Char(t, i) \notin WhiteSpace}
    IN IF S = {} THEN "" ELSE SubSeq(t, MinOf(S), MaxOf(S))

\* strings.Contains
Contains(t, sub) ==
    \E i \in 1..(Len(t) - Len(sub) + 1) : SubSeq(t, i, i + Len(sub) - 1) = sub

reviewableStart == "<!-- Reviewable:start -->"

reviewApprove == "APPROVE"
reviewRequestChanges == "REQUEST_CHANGES"
reviewComment == "COMMENT"
reviewPending == "PENDING"

\* time.Format(timeFormat) of a creation time, given as a day of January 2018
FormatTime(d) == ("2018-01-0" \o IntToStr(d)) \o " 15:04:05"

\* an entry is skipped only when its trimmed body is empty
SkipEntry_EmptyOnly(t) == t = ""

\* the two `continue` tests of the loop over the top-level comments
SkipEntry(t) == t = "" \/ Contains(t, reviewableStart)

EntryAction(state) ==
    IF state = reviewApprove THEN "Approved"
    ELSE IF state = reviewRequestChanges THEN "Changes requested"
    ELSE IF state = reviewPending THEN "Draft comment"
    ELSE "Comment"

\* what one iteration of the loop over the top-level comments prints
PrintEntry(com) ==
    LET t == TrimSpace(com.body)
    IN IF SkipEntry(t) THEN ""
       ELSE ((((("\n" \o EntryAction(com.state)) \o " by ") \o com.author) \o " (")
                \o FormatTime(com.createdAt)) \o ")\n"
            \o ("\n\t" \o wrap(t, "\t")) \o "\n"

RECURSIVE PrintEntries(_)
PrintEntries(comments) ==
    IF Len(comments) = 0 THEN ""
    ELSE PrintEntry(Head(comments)) \o PrintEntries(Tail(comments))

\* printPR for a pull request with the given discussion
printPRWith(comments) == (printHead \o PrintEntries(comments)) \o printTail

\* printPR for a pull request without discussion
printPR == printPRWith(<<>>)

\* the sub-block written for one existing comment
CommentBlock(comment) ==
    ((("* Comment by @" \o comment.User) \o " (") \o comment.CreatedAt) \o ")"
    \o (IF comment.InReplyTo = Nil THEN " thread " \o IntToStr(comment.ID) ELSE "")
    \o "\n"
    \o "*\t" \o wrap(comment.Body, "*\t") \o "\n"

RECURSIVE CommentBlocks(_)
CommentBlocks(comments) ==
    IF Len(comments) = 0 THEN ""
    ELSE CommentBlock(Head(comments)) \o CommentBlocks(Tail(comments))

\* the inline block that echoes only the first comment of the key
InlineBlock_FirstOnly(comments) ==
    ((inlineStartMarker \o "\n") \o CommentBlock(Head(comments)))
        \o (inlineEndMarker \o "\n")

\* the inline block written below a commented diff line
InlineBlock(comments) ==
    ((inlineStartMarker \o "\n") \o CommentBlocks(comments))
        \o (inlineEndMarker \o "\n")

\* number of "\n" in a string
CountNL(t) == Cardinality({i \in 1..Len(t) : Char(t, i) = "\n"})

EncLocals ==
    [commit |-> encCommit, file |-> encFile, num |-> encNum,
     foundFirstHunk |-> encFoundFirstHunk, get |-> FALSE]

\* the encoder's commit header branch without the reset
EncCommitHeader_NoReset(s, line) == [s EXCEPT !.commit = CommitCapture(line)]

\* "Process commit header."
EncCommitHeader(s, line) ==
    [s EXCEPT !.foundFirstHunk = FALSE, !.commit = CommitCapture(line)]

\* "Process diff header."
EncDiffHeader(s) == [s EXCEPT !.foundFirstHunk = FALSE]

\* "Process file header."
EncFileHeader(s, line) == [s EXCEPT !.file = FileCapture(line)]

\* "Process first hunk header."
EncBeforeFirstHunk(s, line) ==
    IF HasPrefix(line, hunkStart)
    THEN [s EXCEPT !.foundFirstHunk = TRUE, !.num = 0]
    ELSE s

\* `num++` followed by the index lookup
EncCount(s) == [s EXCEPT !.num = s.num + 1, !.get = TRUE]

\* the cursor part of one iteration of the encoder loop
EncLoopBody(s, line) ==
    IF CommitMatches(line) THEN EncCommitHeader(s, line)
    ELSE IF HasPrefix(line, diffStart) THEN EncDiffHeader(s)
    ELSE IF FileMatches(line) THEN EncFileHeader(s, line)
    ELSE IF ~s.foundFirstHunk THEN EncBeforeFirstHunk(s, line)
    ELSE EncCount(s)

Cursor(cm, f, ffh, n) == [commit |-> cm, file |-> f, foundFirstHunk |-> ffh, num |-> n]

\* one line of the diff is copied to the template
EncodeLine ==
    /\ pc = "encode"
    /\ encIdx <= Len(diffLines)
    /\ diffLines[encIdx] # ""
    /\ LET raw == diffLines[encIdx]
           s == EncLoopBody(EncLocals, TrimRight(raw, "\n"))
           comments == IF s.get THEN Get(reviewComments, s.commit, s.file, s.num)
                       ELSE <<>>
           block == IF comments # <<>> THEN InlineBlock(comments) ELSE ""
       IN /\ buf' = (buf \o raw) \o block
          /\ encCommit' = s.commit /\ encFile' = s.file /\ encNum' = s.num
          /\ encFoundFirstHunk' = s.foundFirstHunk
          /\ lookups' = IF s.get THEN Append(lookups, <<s.commit, s.file, s.num>>)
                        ELSE lookups
          /\ encTrace' = Append(encTrace,
                                Cursor(s.commit, s.file, s.foundFirstHunk, s.num))
          /\ origin' = (origin \o <<encIdx>>) \o [i \in 1..CountNL(block) |-> 0]
    /\ encIdx' = encIdx + 1
    /\ UNCHANGED <<diffBuf, reviewComments, diffLines, decVars, restVars, pc>>

\* the loop ends (`break` on the empty last piece, or the range is exhausted)
\* and the template is written to the temporary file
EncodeDone ==
    /\ pc = "encode"
    /\ (encIdx > Len(diffLines) \/ diffLines[encIdx] = "")
    /\ pc' = "edit"
    /\ UNCHANGED <<encVars, decVars, restVars>>

-----------------------------------------------------------------------------
(* Documents handed to parseFile *)

commitLine1 == "commit c1"
commitLine2 == "commit c2"
diffLine == "diff --git a/a.txt b/a.txt"
fileLineA == "+++ b/a.txt"
fileLineB == "+++ b/b.txt"
hunkLine == "@@ -1,2 +1,3 @@"
noNewlineLine == "\\ No newline at end of file"
threadLine == "* Comment by @u (2018-01-02 15:04:05) thread 7"
threadLineLong == "* Comment by @u (2018-01-02 15:04:05) thread 99999999999999999999"
oldCommentLine == "*\told"

BodyLines == {" foo", "+bar", "-baz"}
FreeText == {"nice", "ok"}

\* the lines a document is made of
Vocabulary ==
    {commitLine2, diffLine, fileLineB, hunkLine, "+bar", "", noNewlineLine,
     "nice", topLevelStartMarker, topLevelEndMarker, inlineStartMarker,
     inlineEndMarker, threadLine, threadLineLong, oldCommentLine, "\ttab"}

SeqsUpTo(S, n) == UNION {[1..k -> S] : k \in 0..n}

\* the start of a document that has reached the first hunk of a.txt
Preamble == <<fileLineA, hunkLine>>

\* k diff-body lines with free text typed below the n-th of them
AnchorDocs ==
    {<<fileLineA, hunkLine>> \o SubSeq(b, 1, n) \o t \o SubSeq(b, n + 1, Len(b)) :
        <<b, n, t>> \in {x \in SeqsUpTo(BodyLines, MaxBody) \X (1..MaxBody)
                                  \X (SeqsUpTo(FreeText, 2) \ {<<>>}) :
                            x[2] <= Len(x[1])}}

\* text typed between the two top-level markers
TopLevelDocs ==
    {(<<topLevelStartMarker>> \o r) \o <<topLevelEndMarker>> :
        r \in SeqsUpTo({"", "nice", " ok"}, MaxRegion)}

\* documents inside the first hunk followed by any lines, shorter documents
\* of any lines, and the two families above
DocLines == {Preamble \o t : t \in SeqsUpTo(Vocabulary, MaxTail)}
              \cup SeqsUpTo(Vocabulary, MaxTail - 1)
              \cup AnchorDocs \cup TopLevelDocs

\* the text of a document: every line ends with "\n", except that the editor
\* may leave the last line unterminated
RECURSIVE Join(_, _)
Join(ls, lastNL) ==
    IF Len(ls) = 0 THEN ""
    ELSE IF Len(ls) = 1 THEN ls[1] \o (IF lastNL THEN "\n" ELSE "")
    ELSE (ls[1] \o "\n") \o Join(Tail(ls), lastNL)

Docs == {Join(ls, nl) : <<ls, nl>> \in DocLines \X BOOLEAN}

-----------------------------------------------------------------------------
(* Spec: parseFile on an edited document *)

EncIdle ==
    /\ diffBuf = "" /\ reviewComments = <<>> /\ diffLines = <<>> /\ encIdx = 1
    /\ buf = "" /\ encCommit = "" /\ encFile = "" /\ encNum = 0
    /\ encFoundFirstHunk = FALSE /\ lookups = <<>> /\ encTrace = <<>>
    /\ origin = <<>>

\* the fetch phase, the submission loop and wrap are not part of a run
FetchIdle ==
    /\ wg = 0 /\ showWg = 0 /\ pr = Nil /\ gpc = <<>> /\ reviews = <<>>
    /\ issueComments = <<>> /\ page = <<>> /\ putLog = <<>>
    /\ topLevelComments = <<>>

LoopIdle ==
    /\ tmpFile = Nil /\ request = Nil /\ editReview = TRUE /\ text = ""
    /\ nInputs = 0 /\ redraft = Nil /\ posted = <<>> /\ lastDecoded = Nil
    /\ editorRuns = 0 /\ decodeRuns = 0

WrapIdle == wrapT = "" /\ wrapPrefix = "" /\ wrapOut = Nil

DecEntered(b, s) ==
    /\ dat = b /\ lines = SplitAfter(b) /\ idx = 1
    /\ off = s.off /\ commit = s.commit /\ file = s.file /\ num = s.num
    /\ foundFirstHunk = s.foundFirstHunk /\ commentStart = s.commentStart
    /\ lastCommentStart = s.lastCommentStart
    /\ topLevelCommentStart = s.topLevelCommentStart
    /\ lastInlineCommentId = s.lastInlineCommentId
    /\ review = s.review /\ err = s.err

Init ==
    /\ EncIdle /\ FetchIdle /\ LoopIdle /\ WrapIdle
    /\ \E b \in Docs : DecEntered(b, InitLocals)
    /\ pc = "parse"

Next == ParseLine \/ ParseReturn

Spec == Init /\ [][Next]_vars

-----------------------------------------------------------------------------
(* SpecRT: makeReviewTemplate's encoder, the editor, then parseFile *)

\* the fetched inline comments
Existing(cm, pos, id, reply, body) ==
    [CommitID |-> cm, Path |-> "a.txt", Position |-> pos, ID |-> id,
     InReplyTo |-> reply, User |-> "u", CreatedAt |-> "2018-01-02 15:04:05",
     Body |-> body]

ExistingComments ==
    {Existing("c1", Ptr(1), 7, Nil, "old"),
     Existing("c1", Ptr(1), 8, Ptr(7), "re\nply"),
     Existing("c2", Ptr(1), 9, Nil, "x"),
     Existing("c1", Nil, 10, Nil, "outdated")}

\* a page of the listing: distinct comments, oldest first
ExistingLists ==
    {l \in SeqsUpTo(ExistingComments, MaxExisting) :
        \A i \in 1..(Len(l) - 1) : l[i].ID < l[i + 1].ID}

\* `git show` output: one commit, or two commits, that change a.txt, followed
\* by further diff lines
DiffVocabulary == {commitLine2, hunkLine, "+bar", "", noNewlineLine}

DiffHeads ==
    {<<commitLine1, diffLine, fileLineA, hunkLine, "+bar">>,
     <<commitLine1, diffLine, fileLineA, hunkLine, "+bar",
       commitLine2, diffLine, fileLineA, hunkLine>>}

Diffs == {Join(h \o t, TRUE) :
             <<h, t>> \in DiffHeads \X SeqsUpTo(DiffVocabulary, MaxDiffTail)}

InitRT ==
    /\ diffBuf \in Diffs
    /\ \E list \in ExistingLists : reviewComments = PutAll(EmptyMap, list)
    /\ diffLines = SplitAfter(diffBuf)
    /\ encIdx = 1
    /\ buf = printPR
    /\ encCommit = "" /\ encFile = "" /\ encNum = 0 /\ encFoundFirstHunk = FALSE
    /\ lookups = <<>> /\ encTrace = <<>>
    /\ origin = [i \in 1..CountNL(printPR) |-> 0]
    /\ DecEntered("", InitLocals)
    /\ FetchIdle /\ LoopIdle /\ WrapIdle
    /\ pc = "encode"

\* the user leaves the template untouched
EditNothing ==
    /\ pc = "edit"
    /\ ParseEnter(buf)
    /\ pc' = "parse"
    /\ UNCHANGED <<encVars, restVars>>

\* text of the pieces i..j of a split document
RECURSIVE Concat(_, _, _)
Concat(ls, i, j) == IF i > j THEN "" ELSE ls[i] \o Concat(ls, i + 1, j)

\* the user types one line of free text below line p of the diff part; an
\* editor may leave a line typed at the very end without its line break
EditInsert ==
    /\ pc = "edit"
    /\ LET ls == SplitAfter(buf)
       IN \E p \in (CountNL(printPR) + 1)..(Len(ls) - 1),
             t \in {"nice\n", "nice"} :
             /\ (t = "nice" => p = Len(ls) - 1)
             /\ ParseEnter((Concat(ls, 1, p) \o t) \o Concat(ls, p + 1, Len(ls)))
             /\ origin' = (SubSeq(origin, 1, p) \o <<0>>)
                              \o SubSeq(origin, p + 1, Len(origin))
    /\ pc' = "parse"
    /\ UNCHANGED <<diffBuf, reviewComments, diffLines, encIdx, buf, encCommit,
                   encFile, encNum, encFoundFirstHunk, lookups, encTrace,
                   restVars>>

NextRT == EncodeLine \/ EncodeDone \/ EditNothing \/ EditInsert
              \/ ParseLine \/ ParseReturn

SpecRT == InitRT /\ [][NextRT]_vars

-----------------------------------------------------------------------------
(* SpecFetch: makeReviewTemplate from its six goroutines to the template *)

Goroutines == {"getPR", "listReviews", "gitFetch", "gitShow",
               "listIssueComments", "listComments"}

\* the goroutines have not exited with the process
Running == pc \notin {"exit", "panic"}

Review(body, at, author, state) ==
    [Body |-> body, SubmittedAt |-> at, User |-> author, State |-> state,
     CommitID |-> "c1"]

IssueComment(body, at, author) == [Body |-> body, CreatedAt |-> at, User |-> author]

\* what the hosting platform may list
ReviewCandidates ==
    {Review("LGTM", 2, "r", reviewApprove), Review(" \n", 3, "e", "COMMENTED")}

IssueCandidates ==
    {IssueComment((reviewableStart \o "\nThis change is Reviewable\n")
                      \o "<!-- Reviewable:end -->\n", 1, "b"),
     IssueComment(reviewableStart, 2, "m")}

FetchDiffs == {Join(h, TRUE) : h \in DiffHeads}

InitFetch ==
    /\ EncIdle /\ LoopIdle /\ WrapIdle
    /\ DecEntered("", InitLocals)
    /\ wg = 6 /\ showWg = 2
    /\ pr = Nil
    /\ gpc = [g \in Goroutines |->
                 IF g = "gitFetch" THEN "run"
                 ELSE IF g = "gitShow" THEN "wait" ELSE "call"]
    /\ reviews = <<>> /\ issueComments = <<>> /\ page = <<>> /\ putLog = <<>>
    /\ topLevelComments = <<>>
    /\ pc = "fetch"

\* what a goroutine step leaves alone besides the fetch variables
FetchFrame == UNCHANGED <<encVars, decVars, loopVars, wrapVars, pc>>

\* `pr, _, err = client.PullRequests.Get(...)` without error
GetPR ==
    /\ Running /\ gpc["getPR"] = "call"
    /\ pr' = Ptr([User |-> "u"])
    /\ gpc' = [gpc EXCEPT !["getPR"] = "showDone"]
    /\ UNCHANGED <<wg, showWg, reviews, issueComments, page, putLog,
                   topLevelComments>>
    /\ FetchFrame

\* `git fetch` without error
GitFetch ==
    /\ Running /\ gpc["gitFetch"] = "run"
    /\ gpc' = [gpc EXCEPT !["gitFetch"] = "showDone"]
    /\ UNCHANGED <<wg, showWg, pr, reviews, issueComments, page, putLog,
                   topLevelComments>>
    /\ FetchFrame

\* showWg.Done() called by the pull-request fetch only
ShowWgDone_OnlyGetPR ==
    /\ Running
    /\ \E g \in {"getPR", "gitFetch"} :
          /\ gpc[g] = "showDone"
          /\ gpc' = [gpc EXCEPT ![g] = "wgDone"]
          /\ showWg' = IF g = "getPR" THEN showWg - 1 ELSE showWg
    /\ UNCHANGED <<wg, pr, reviews, issueComments, page, putLog, topLevelComments>>
    /\ FetchFrame

\* showWg.Done() in the pull-request fetch and in the ref fetch
ShowWgDone ==
    /\ Running
    /\ \E g \in {"getPR", "gitFetch"} :
          /\ gpc[g] = "showDone"
          /\ gpc' = [gpc EXCEPT ![g] = "wgDone"]
    /\ showWg' = showWg - 1
    /\ UNCHANGED <<wg, pr, reviews, issueComments, page, putLog, topLevelComments>>
    /\ FetchFrame

\* the `git show` task starts without waiting for the two fetches
GitShowWait_NoBarrier ==
    /\ Running /\ gpc["gitShow"] = "wait"
    /\ gpc' = [gpc EXCEPT !["gitShow"] = "run"]
    /\ UNCHANGED <<wg, showWg, pr, reviews, issueComments, page, putLog,
                   topLevelComments>>
    /\ FetchFrame

\* showWg.Wait() returns
GitShowWait ==
    /\ Running /\ gpc["gitShow"] = "wait"
    /\ showWg = 0
    /\ gpc' = [gpc EXCEPT !["gitShow"] = "run"]
    /\ UNCHANGED <<wg, showWg, pr, reviews, issueComments, page, putLog,
                   topLevelComments>>
    /\ FetchFrame

\* `git show --reverse <base>..<head>`: *pr.Base.SHA dereferences pr
GitShow ==
    /\ Running /\ gpc["gitShow"] = "run"
    /\ IF pr = Nil
       THEN /\ pc' = "panic"
            /\ UNCHANGED <<encVars, gpc>>
       ELSE /\ \E d \in FetchDiffs : diffBuf' = d
            /\ gpc' = [gpc EXCEPT !["gitShow"] = "wgDone"]
            /\ UNCHANGED <<reviewComments, diffLines, encIdx, buf, encCommit,
                           encFile, encNum, encFoundFirstHunk, lookups,
                           encTrace, origin, pc>>
    /\ UNCHANGED <<wg, showWg, pr, reviews, issueComments, page, putLog,
                   topLevelComments, decVars, loopVars, wrapVars>>

\* one page of client.PullRequests.ListReviews is appended: reviews not listed
\* before, oldest first
ListReviews ==
    /\ Running /\ gpc["listReviews"] = "call"
    /\ \E l \in SeqsUpTo(ReviewCandidates, MaxTopLevel - Len(reviews)),
          more \in BOOLEAN :
          /\ more => (l # <<>> /\ Len(reviews) + Len(l) < MaxTopLevel)
          /\ \A i \in 1..(Len(l) - 1) : l[i].SubmittedAt < l[i + 1].SubmittedAt
          /\ (l # <<>> /\ reviews # <<>>)
                 => reviews[Len(reviews)].SubmittedAt < l[1].SubmittedAt
          /\ reviews' = reviews \o l
          /\ gpc' = [gpc EXCEPT !["listReviews"] = IF more THEN "call" ELSE "wgDone"]
    /\ UNCHANGED <<wg, showWg, pr, issueComments, page, putLog, topLevelComments>>
    /\ FetchFrame

\* one page of client.Issues.ListComments is appended: comments not listed
\* before, oldest first
ListIssueComments ==
    /\ Running /\ gpc["listIssueComments"] = "call"
    /\ \E l \in SeqsUpTo(IssueCandidates, MaxTopLevel - Len(issueComments)),
          more \in BOOLEAN :
          /\ more => (l # <<>> /\ Len(issueComments) + Len(l) < MaxTopLevel)
          /\ \A i \in 1..(Len(l) - 1) : l[i].CreatedAt < l[i + 1].CreatedAt
          /\ (l # <<>> /\ issueComments # <<>>)
                 => issueComments[Len(issueComments)].CreatedAt < l[1].CreatedAt
          /\ issueComments' = issueComments \o l
          /\ gpc' = [gpc EXCEPT !["listIssueComments"] =
                                    IF more THEN "call" ELSE "wgDone"]
    /\ UNCHANGED <<wg, showWg, pr, reviews, page, putLog, topLevelComments>>
    /\ FetchFrame

\* one page of client.PullRequests.ListComments arrives: comments not listed
\* before, oldest first
ListComments ==
    /\ Running /\ gpc["listComments"] = "call"
    /\ \E l \in SeqsUpTo(ExistingComments, MaxPut - Len(putLog)),
          more \in BOOLEAN :
          /\ more => (l # <<>> /\ Len(putLog) + Len(l) < MaxPut)
          /\ \A i \in 1..(Len(l) - 1) : l[i].ID < l[i + 1].ID
          /\ (l # <<>> /\ putLog # <<>>) => putLog[Len(putLog)].ID < l[1].ID
          /\ page' = l
          /\ gpc' = [gpc EXCEPT !["listComments"] = IF more THEN "put" ELSE "putLast"]
    /\ UNCHANGED <<wg, showWg, pr, reviews, issueComments, putLog,
                   topLevelComments>>
    /\ FetchFrame

\* `reviewComments.put(comment)` for the next comment of the page
PutComment ==
    /\ Running /\ gpc["listComments"] \in {"put", "putLast"}
    /\ page # <<>>
    /\ reviewComments' = Put(reviewComments, Head(page))
    /\ putLog' = Append(putLog, Head(page))
    /\ page' = Tail(page)
    /\ UNCHANGED <<wg, showWg, pr, gpc, reviews, issueComments, topLevelComments>>
    /\ UNCHANGED <<diffBuf, diffLines, encIdx, buf, encCommit, encFile, encNum,
                   encFoundFirstHunk, lookups, encTrace, origin>>
    /\ UNCHANGED <<decVars, loopVars, wrapVars, pc>>

\* the page is exhausted: `if resp.NextPage < page { break }`
NextPage ==
    /\ Running /\ gpc["listComments"] \in {"put", "putLast"}
    /\ page = <<>>
    /\ gpc' = [gpc EXCEPT !["listComments"] =
                              IF gpc["listComments"] = "put" THEN "call" ELSE "wgDone"]
    /\ UNCHANGED <<wg, showWg, pr, reviews, issueComments, page, putLog,
                   topLevelComments>>
    /\ FetchFrame

\* wg.Done() at the end of a goroutine
WgDone ==
    /\ Running
    /\ \E g \in Goroutines :
          /\ gpc[g] = "wgDone"
          /\ gpc' = [gpc EXCEPT ![g] = "end"]
    /\ wg' = wg - 1
    /\ UNCHANGED <<showWg, pr, reviews, issueComments, page, putLog,
                   topLevelComments>>
    /\ FetchFrame

\* a request or a git command fails: log.Fatal ends the process
Fatal ==
    /\ pc = "fetch"
    /\ \E g \in Goroutines : gpc[g] \in {"call", "run"}
    /\ pc' = "exit"
    /\ UNCHANGED <<encVars, decVars, restVars>>

\* the main goroutine goes on without wg.Wait()
WgWait_NoBarrier ==
    /\ pc = "fetch"
    /\ pc' = "print"
    /\ UNCHANGED <<encVars, decVars, restVars>>

\* wg.Wait() returns
WgWait ==
    /\ pc = "fetch"
    /\ wg = 0
    /\ pc' = "print"
    /\ UNCHANGED <<encVars, decVars, restVars>>

TopLevelOfReview(r) ==
    [body |-> r.Body, createdAt |-> r.SubmittedAt, author |-> r.User,
     state |-> r.State, commitID |-> r.CommitID]

TopLevelOfIssueComment(c) ==
    [body |-> c.Body, createdAt |-> c.CreatedAt, author |-> c.User,
     state |-> "", commitID |-> ""]

\* the two append loops
Unsorted ==
    [i \in 1..Len(reviews) |-> TopLevelOfReview(reviews[i])]
        \o [i \in 1..Len(issueComments) |-> TopLevelOfIssueComment(issueComments[i])]

\* sort.Sort by createdAt: some permutation in which no entry precedes an
\* older one (entries of equal time in any order)
SortResults(u) ==
    {[i \in 1..Len(u) |-> u[q[i]]] :
        q \in {f \in [1..Len(u) -> 1..Len(u)] :
                  /\ \A i, j \in 1..Len(u) : i # j => f[i] # f[j]
                  /\ \A i \in 1..(Len(u) - 1) :
                        u[f[i]].createdAt <= u[f[i + 1]].createdAt}}

\* topLevelComments is built and sorted, printPR writes the head of the
\* template, and the diff is split into lines
PrintPR ==
    /\ pc = "print"
    /\ \E t \in SortResults(Unsorted) :
          /\ topLevelComments' = t
          /\ buf' = printPRWith(t)
          /\ origin' = [i \in 1..CountNL(printPRWith(t)) |-> 0]
    /\ diffLines' = SplitAfter(diffBuf)
    /\ pc' = "encode"
    /\ UNCHANGED <<diffBuf, reviewComments, encIdx, encCommit, encFile, encNum,
                   encFoundFirstHunk, lookups, encTrace>>
    /\ UNCHANGED <<wg, showWg, pr, gpc, reviews, issueComments, page, putLog>>
    /\ UNCHANGED <<decVars, loopVars, wrapVars>>

NextFetch ==
    \/ GetPR \/ GitFetch \/ ShowWgDone \/ GitShowWait \/ GitShow
    \/ ListReviews \/ ListIssueComments \/ ListComments \/ PutComment
    \/ NextPage \/ WgDone \/ Fatal \/ WgWait \/ PrintPR
    \/ EncodeLine \/ EncodeDone

SpecFetch == InitFetch /\ [][NextFetch]_vars

\* a step of one of the six tasks, or the return of wg.Wait
FetchStep ==
    \/ GetPR \/ GitFetch \/ ShowWgDone \/ GitShowWait \/ GitShow
    \/ ListReviews \/ ListIssueComments \/ ListComments \/ PutComment
    \/ NextPage \/ WgDone \/ WgWait

\* the Go scheduler runs a goroutine whenever one can take a step; a failing
\* call (Fatal) is not forced
FetchFairness == WF_vars(FetchStep)

SpecFetchFair == SpecFetch /\ FetchFairness

-----------------------------------------------------------------------------
(* SpecWrap: wrap applied to a text *)

\* a text is made of words of 40 and 31 letters, a three-word phrase, spaces
\* and line breaks of both kinds
WrapParts == {Repeat("a", 40), Repeat("b", 31), "c d e", " ", "\n", "\r\n"}

WrapTexts == {Concat(q, 1, Len(q)) : q \in SeqsUpTo(WrapParts, MaxWrapParts)}

\* the prefixes the callers pass: printPR and the inline comment blocks
WrapPrefixes == {"\t", "*\t"}

InitWrap ==
    /\ EncIdle /\ FetchIdle /\ LoopIdle
    /\ DecEntered("", InitLocals)
    /\ wrapT \in WrapTexts
    /\ wrapPrefix \in WrapPrefixes
    /\ wrapOut = Nil
    /\ pc = "wrap"

\* the call wrap(t, prefix)
WrapCall ==
    /\ pc = "wrap"
    /\ wrapOut' = Ptr(wrap(wrapT, wrapPrefix))
    /\ pc' = "wrapped"
    /\ UNCHANGED <<encVars, decVars, fetchVars, loopVars, wrapT, wrapPrefix>>

NextWrap == WrapCall

SpecWrap == InitWrap /\ [][NextWrap]_vars

-----------------------------------------------------------------------------
(* SpecLoop: review, parseFileUntilSuccess and postComments *)

\* the template of a one-commit pull request, and what the user may make of it
TemplateLines == <<commitLine1, diffLine, fileLineA, hunkLine, "+bar">>

Template == Join(TemplateLines, TRUE)

LoopDocs ==
    {Template,
     Join(TemplateLines \o <<"nice">>, TRUE),
     Join(TemplateLines \o <<"nice">>, FALSE),
     Join(<<topLevelStartMarker, "LGTM", topLevelEndMarker>> \o TemplateLines, TRUE),
     Join(TemplateLines \o <<threadLineLong>>, TRUE)}

\* what stdin.ReadString yields: a line, the end of input, or a read error
MenuInputs == {"y\n", "a\n", "r\n", "d\n", "s\n", "p\n", "e\n", "q\n", "?\n",
               "x\n", "\n", "EOF", "ERR"}
PromptInputs == {"y\n", "Y\n", "\n", "q\n", "n\n", "EOF", "ERR"}

InitLoop ==
    /\ EncIdle /\ FetchIdle /\ WrapIdle
    /\ DecEntered("", InitLocals)
    /\ tmpFile = Ptr(Template)
    /\ request = Nil
    /\ editReview = TRUE
    /\ text = "" /\ nInputs = 0
    /\ redraft = Nil /\ posted = <<>> /\ lastDecoded = Nil
    /\ editorRuns = 0 /\ decodeRuns = 0
    /\ pc = "loop"

\* the head of review's loop: `if editReview { ... }; editReview = true`
LoopTop ==
    /\ pc = "loop"
    /\ pc' = IF editReview THEN "editor" ELSE "menu"
    /\ editReview' = TRUE
    /\ UNCHANGED <<tmpFile, request, text, nInputs, redraft, posted, lastDecoded,
                   editorRuns, decodeRuns>>
    /\ UNCHANGED <<encVars, decVars, fetchVars, wrapVars>>

\* editFile succeeds: the user leaves a document in the file, the file is
\* read and handed to parseFile
RunEditor ==
    /\ pc = "editor"
    /\ \E d \in LoopDocs :
          /\ tmpFile' = Ptr(d)
          /\ ParseEnter(d)
    /\ editorRuns' = editorRuns + 1
    /\ pc' = "parse"
    /\ UNCHANGED <<request, editReview, text, nInputs, redraft, posted,
                   lastDecoded, decodeRuns>>
    /\ UNCHANGED <<encVars, fetchVars, wrapVars>>

\* editFile fails: the editor exits with an error
EditorFails ==
    /\ pc = "editor"
    /\ editorRuns' = editorRuns + 1
    /\ pc' = "prompt"
    /\ UNCHANGED <<tmpFile, request, editReview, text, nInputs, redraft, posted,
                   lastDecoded, decodeRuns>>
    /\ UNCHANGED <<encVars, decVars, fetchVars, wrapVars>>

\* parseFileUntilSuccess returns whatever parseFile returned, error or not
ParseOutcome_ReturnOnError ==
    /\ pc = "done"
    /\ decodeRuns' = decodeRuns + 1
    /\ request' = IF err = "nil"
                  THEN Ptr([Body |-> review.Body, CommitID |-> review.CommitID,
                            Comments |-> review.Comments, Event |-> Nil])
                  ELSE Nil
    /\ lastDecoded' = IF err = "nil" THEN Ptr(review) ELSE lastDecoded
    /\ pc' = "menu"
    /\ UNCHANGED <<tmpFile, editReview, text, nInputs, redraft, posted, editorRuns>>
    /\ UNCHANGED <<encVars, decVars, fetchVars, wrapVars>>

\* parseFile has returned: `if err == nil { return request }`, else the
\* "edit again?" prompt
ParseOutcome ==
    /\ pc = "done"
    /\ decodeRuns' = decodeRuns + 1
    /\ IF err = "nil"
       THEN /\ request' = Ptr([Body |-> review.Body, CommitID |-> review.CommitID,
                               Comments |-> review.Comments, Event |-> Nil])
            /\ lastDecoded' = Ptr(review)
            /\ pc' = "menu"
       ELSE /\ pc' = "prompt"
            /\ UNCHANGED <<request, lastDecoded>>
    /\ UNCHANGED <<tmpFile, editReview, text, nInputs, redraft, posted, editorRuns>>
    /\ UNCHANGED <<encVars, decVars, fetchVars, wrapVars>>

\* stdin.ReadString('\n') yields t
ReadString(t) ==
    /\ nInputs < MaxInputs
    /\ text' = t
    /\ nInputs' = nInputs + 1

ReadFailed(t) == t \in {"EOF", "ERR"}

\* the "edit again? [Y]/q" prompt of parseFileUntilSuccess
Prompt ==
    /\ pc = "prompt"
    /\ \E t \in PromptInputs :
          /\ ReadString(t)
          /\ pc' = IF ReadFailed(t) \/ TrimRight(t, "\n") = "q"
                   THEN "exit" ELSE "editor"
    /\ UNCHANGED <<tmpFile, request, editReview, redraft, posted, lastDecoded,
                   editorRuns, decodeRuns>>
    /\ UNCHANGED <<encVars, decVars, fetchVars, wrapVars>>

\* the menu: end of input (exitHappy) or a read error (log.Fatal)
MenuReadFails ==
    /\ pc = "menu"
    /\ \E t \in MenuInputs : ReadFailed(t) /\ ReadString(t)
    /\ pc' = "exit"
    /\ UNCHANGED <<tmpFile, request, editReview, redraft, posted, lastDecoded,
                   editorRuns, decodeRuns>>
    /\ UNCHANGED <<encVars, decVars, fetchVars, wrapVars>>

\* every submit input sets the COMMENT outcome
EventOf_AlwaysComment(c) == Ptr(reviewComment)

\* the Event that cases 'y', 'a', 'r' and 'd' assign
EventOf(c) ==
    IF c = "y" THEN Ptr(reviewComment)
    ELSE IF c = "a" THEN Ptr(reviewApprove)
    ELSE IF c = "r" THEN Ptr(reviewRequestChanges)
    ELSE Nil

\* cases 'y', 'a', 'r', 'd': the request is returned and the deferred
\* os.Remove(filename) runs
MenuSubmit ==
    /\ pc = "menu"
    /\ \E t \in MenuInputs :
          /\ ~ReadFailed(t) /\ Char(t, 1) \in {"y", "a", "r", "d"}
          /\ ReadString(t)
          /\ request' = Ptr([request[1] EXCEPT !.Event = EventOf(Char(t, 1))])
    /\ tmpFile' = Nil
    /\ pc' = "returned"
    /\ UNCHANGED <<editReview, redraft, posted, lastDecoded, editorRuns, decodeRuns>>
    /\ UNCHANGED <<encVars, decVars, fetchVars, wrapVars>>

\* case 's': the file is copied to <pr>.redraft and exitHappy ends the
\* process; a failing cp ends it through log.Fatal
MenuSave ==
    /\ pc = "menu"
    /\ \E t \in MenuInputs :
          /\ ~ReadFailed(t) /\ Char(t, 1) = "s"
          /\ ReadString(t)
    /\ \E ok \in BOOLEAN : redraft' = IF ok THEN tmpFile ELSE redraft
    /\ pc' = "exit"
    /\ UNCHANGED <<tmpFile, request, editReview, posted, lastDecoded, editorRuns,
                   decodeRuns>>
    /\ UNCHANGED <<encVars, decVars, fetchVars, wrapVars>>

\* case 'p' with the flag left set, so that the loop edits again
MenuPreview_ReEdit ==
    /\ pc = "menu"
    /\ \E t \in MenuInputs :
          /\ ~ReadFailed(t) /\ Char(t, 1) = "p"
          /\ ReadString(t)
    /\ pc' = "loop"
    /\ UNCHANGED <<tmpFile, request, editReview, redraft, posted, lastDecoded,
                   editorRuns, decodeRuns>>
    /\ UNCHANGED <<encVars, decVars, fetchVars, wrapVars>>

\* case 'p': `editReview = false`, the request is printed
MenuPreview ==
    /\ pc = "menu"
    /\ \E t \in MenuInputs :
          /\ ~ReadFailed(t) /\ Char(t, 1) = "p"
          /\ ReadString(t)
    /\ editReview' = FALSE
    /\ pc' = "loop"
    /\ UNCHANGED <<tmpFile, request, redraft, posted, lastDecoded, editorRuns,
                   decodeRuns>>
    /\ UNCHANGED <<encVars, decVars, fetchVars, wrapVars>>

\* case 'e' clearing the flag, so that the loop does not edit
MenuEdit_NoEdit ==
    /\ pc = "menu"
    /\ \E t \in MenuInputs :
          /\ ~ReadFailed(t) /\ Char(t, 1) = "e"
          /\ ReadString(t)
    /\ editReview' = FALSE
    /\ pc' = "loop"
    /\ UNCHANGED <<tmpFile, request, redraft, posted, lastDecoded, editorRuns,
                   decodeRuns>>
    /\ UNCHANGED <<encVars, decVars, fetchVars, wrapVars>>

\* case 'e': `continue`
MenuEdit ==
    /\ pc = "menu"
    /\ \E t \in MenuInputs :
          /\ ~ReadFailed(t) /\ Char(t, 1) = "e"
          /\ ReadString(t)
    /\ pc' = "loop"
    /\ UNCHANGED <<tmpFile, request, editReview, redraft, posted, lastDecoded,
                   editorRuns, decodeRuns>>
    /\ UNCHANGED <<encVars, decVars, fetchVars, wrapVars>>

\* case 'q': exitHappy
MenuQuit ==
    /\ pc = "menu"
    /\ \E t \in MenuInputs :
          /\ ~ReadFailed(t) /\ Char(t, 1) = "q"
          /\ ReadString(t)
    /\ pc' = "exit"
    /\ UNCHANGED <<tmpFile, request, editReview, redraft, posted, lastDecoded,
                   editorRuns, decodeRuns>>
    /\ UNCHANGED <<encVars, decVars, fetchVars, wrapVars>>

\* case '?' and default: `editReview = false`, the help is printed
MenuHelp ==
    /\ pc = "menu"
    /\ \E t \in MenuInputs :
          /\ ~ReadFailed(t)
          /\ Char(t, 1) \notin {"y", "a", "r", "d", "s", "p", "e", "q"}
          /\ ReadString(t)
    /\ editReview' = FALSE
    /\ pc' = "loop"
    /\ UNCHANGED <<tmpFile, request, redraft, posted, lastDecoded, editorRuns,
                   decodeRuns>>
    /\ UNCHANGED <<encVars, decVars, fetchVars, wrapVars>>

\* postComments on the returned request: CreateReview is called only for a
\* request that has comments
PostComments ==
    /\ pc = "returned"
    /\ posted' = IF Len(request[1].Comments) > 0
                 THEN Append(posted, request[1]) ELSE posted
    /\ pc' = "end"
    /\ UNCHANGED <<tmpFile, request, editReview, text, nInputs, redraft,
                   lastDecoded, editorRuns, decodeRuns>>
    /\ UNCHANGED <<encVars, decVars, fetchVars, wrapVars>>

NextLoop ==
    \/ LoopTop \/ RunEditor \/ EditorFails \/ ParseLine \/ ParseReturn
    \/ ParseOutcome \/ Prompt \/ MenuReadFails \/ MenuSubmit \/ MenuSave
    \/ MenuPreview \/ MenuEdit \/ MenuQuit \/ MenuHelp \/ PostComments

SpecLoop == InitLoop /\ [][NextLoop]_vars

-----------------------------------------------------------------------------
(* The document as text: what the claims say about its lines *)

\* number of lines of the document (the last piece of the split is the empty
\* remainder when the document ends with a line break)
NumLines == IF lines[Len(lines)] = "" THEN Len(lines) - 1 ELSE Len(lines)

LineText(i) == TrimRight(lines[i], "\n")

\* every line of the document ends with a line break
Terminated == lines[Len(lines)] = ""

\* a marker as a line of the document, with or without its line break
AsLine(m) == {m, m \o "\n"}
BeginLines == AsLine(topLevelStartMarker)
TopLevelMarkerLines == BeginLines \cup AsLine(topLevelEndMarker)
InlineMarkerLines == AsLine(inlineStartMarker) \cup AsLine(inlineEndMarker)

IsTopLevelMarker(i) == lines[i] \in TopLevelMarkerLines
IsInlineMarker(i) == lines[i] \in InlineMarkerLines

\* line i lies after a begin marker that no end marker has closed
InTopLevel(i) ==
    /\ ~IsTopLevelMarker(i)
    /\ LET M == {j \in 1..(i - 1) : IsTopLevelMarker(j)}
       IN M # {} /\ lines[MaxOf(M)] \in BeginLines

\* line i is read as part of the diff: it is neither a marker, nor inside the
\* top-level region, nor a thread-id line
Visible(i) ==
    /\ ~IsTopLevelMarker(i) /\ ~IsInlineMarker(i)
    /\ ~ThreadIdMatches(LineText(i)) /\ ~InTopLevel(i)

\* line i of the document starts with p (p holds no line break)
StartsWith(i, p) == HasPrefix(lines[i], p)

IsCommitLine(i) == StartsWith(i, "commit ") /\ Visible(i)
IsResetLine(i) == IsCommitLine(i) \/ (StartsWith(i, "diff --git ") /\ Visible(i))
IsFileLine(i) == StartsWith(i, "+++ b/") /\ Visible(i)
IsHunkLine(i) == StartsWith(i, "@@") /\ Visible(i)

\* a hunk header precedes line i in its diff section: the last hunk header or
\* reset line before i is a hunk header
AfterFirstHunk(i) ==
    LET M == {j \in 1..(i - 1) : IsHunkLine(j) \/ IsResetLine(j)}
    IN M # {} /\ IsHunkLine(MaxOf(M))

FirstCharIn(t, set) == Len(t) > 0 /\ Char(t, 1) \in set

\* line i is free text typed by the user
IsFreeTextLine(i) ==
    /\ Len(LineText(i)) > 0
    /\ ~FirstCharIn(LineText(i), {"+", "-", " ", "@", "*", "\t"})
    /\ Visible(i) /\ ~IsResetLine(i) /\ ~IsFileLine(i) /\ AfterFirstHunk(i)

\* the lines a..b joined by single line breaks
RECURSIVE JoinText(_, _)
JoinText(a, b) ==
    IF a > b THEN "" ELSE IF a = b THEN LineText(a)
    ELSE (LineText(a) \o "\n") \o JoinText(a + 1, b)

\* what parseFile returns: (review, nil) or (nil, err)
Request == IF err = "nil" THEN Ptr(review) ELSE Nil

-----------------------------------------------------------------------------
(* C1: new-comment anchoring *)

\* the document is a file header, a hunk header and diff-body lines, with one
\* line of free text below the n-th diff-body line; t is the line typed
AnchorShape(t) ==
    /\ NumLines >= 4 /\ t \in 4..NumLines
    /\ HasPrefix(LineText(1), "+++ b/")
    /\ HasPrefix(LineText(2), "@@")
    /\ LineText(t) \in FreeText
    /\ \A i \in 3..NumLines :
          i # t => /\ FirstCharIn(LineText(i), {"+", "-", " "})
                   /\ ~HasPrefix(LineText(i), "+++ b/")

Anchored(t) ==
    <<[Path |-> Ptr(SubSeq(LineText(1), 7, Len(LineText(1)))),
       Position |-> Ptr(t - 3), Body |-> Ptr(LineText(t))]>>

\* C1: a line of free text typed below the n-th diff-body line of a one-file,
\* one-hunk document yields exactly one DraftComment with that file, position
\* n and the typed text as body.
C1_Anchoring ==
    pc = "done" =>
        \A t \in 1..NumLines :
            AnchorShape(t) => err = "nil" /\ review.Comments = Anchored(t)

\* C1 on documents whose last line ends with a line break (the part of C1
\* that the code satisfies)
C1_AnchoringTerminated ==
    (pc = "done" /\ Terminated) =>
        \A t \in 1..NumLines :
            AnchorShape(t) => err = "nil" /\ review.Comments = Anchored(t)

C1_Witness ==
    /\ pc = "done" /\ Terminated /\ NumLines = 6 /\ AnchorShape(5)
    /\ review.Comments = Anchored(5)

-----------------------------------------------------------------------------
(* C4: multi-line accumulation *)

RunStarts == {i \in 1..NumLines : IsFreeTextLine(i) /\ (i = 1 \/ ~IsFreeTextLine(i - 1))}

RunEnd(a) == CHOOSE b \in a..NumLines :
                 /\ \A m \in a..b : IsFreeTextLine(m)
                 /\ (b = NumLines \/ ~IsFreeTextLine(b + 1))

\* the bodies the runs of free text stand for, in document order
RunBodies == LET st == Sorted(RunStarts)
             IN [k \in 1..Len(st) |-> Ptr(JoinText(st[k], RunEnd(st[k])))]

CommentBodies == [k \in 1..Len(review.Comments) |-> review.Comments[k].Body]

\* C4: every maximal run of consecutive free-text lines produces exactly one
\* DraftComment, whose body is the lines of the run joined by single line
\* breaks; the comments come in the order of their runs.
C4_Accumulation ==
    (pc = "done" /\ err = "nil") => CommentBodies = RunBodies

\* C4 on documents whose last line ends with a line break
C4_AccumulationTerminated ==
    (pc = "done" /\ err = "nil" /\ Terminated) => CommentBodies = RunBodies

C4_Witness ==
    /\ pc = "done" /\ Terminated
    /\ CommentBodies = <<Ptr("nice\nok")>>

-----------------------------------------------------------------------------
(* C5, C6: the top-level region *)

BeginMarkers == {i \in 1..NumLines : LineText(i) = topLevelStartMarker}
EndMarkers == {i \in 1..NumLines : LineText(i) = topLevelEndMarker}

\* the document has one begin marker and, after it, one end marker
WellFormedPair(i, j) == BeginMarkers = {i} /\ EndMarkers = {j} /\ i < j

\* the region i+1..j-1 without its leading and trailing blank lines
TrimFirst(i, j) ==
    IF \E m \in (i + 1)..(j - 1) : LineText(m) # ""
    THEN MinOf({m \in (i + 1)..(j - 1) : LineText(m) # ""}) ELSE j
TrimLast(i, j) ==
    CHOOSE b \in i..(j - 1) :
        /\ (b = i \/ LineText(b) # "")
        /\ \A m \in (b + 1)..(j - 1) : LineText(m) = ""

TrimmedRegion(i, j) == JoinText(TrimFirst(i, j), TrimLast(i, j))

\* C5: the request body is the text between the begin and the end marker,
\* trimmed of surrounding blank lines (followed by the signature line that
\* parseFile appends); a region that is empty after trimming yields no body.
\* Stated for documents whose last line ends with a line break.
C5_TopLevelExtraction ==
    (pc = "done" /\ err = "nil" /\ Terminated) =>
        \A i, j \in 1..NumLines :
            WellFormedPair(i, j) =>
                review.Body = IF TrimmedRegion(i, j) = "" THEN Nil
                              ELSE Ptr(TrimmedRegion(i, j) \o reviewSuffix)

\* t occurs in s as a contiguous part
IsPartOf(t, s) == \E a \in 0..(Len(s) - Len(t)) : SubSeq(s, a + 1, a + Len(t)) = t

\* the body without the signature line
BodyText == SubSeq(review.Body[1], 1, Len(review.Body[1]) - Len(reviewSuffix))

\* C6: the request body only holds text found between a begin marker and the
\* next end marker; a document without such a pair yields no body.
C6_OutsideNeverContributes ==
    (pc = "done" /\ err = "nil" /\ review.Body # Nil) =>
        \E i \in BeginMarkers, j \in EndMarkers :
            /\ i < j
            /\ \A m \in (i + 1)..(j - 1) : m \notin EndMarkers
            /\ IsPartOf(BodyText, JoinText(i + 1, j - 1))

-----------------------------------------------------------------------------
(* C7: stray text before the first hunk *)

\* parseFile scans line i of the document in the next step
Scanning(i) == pc = "parse" /\ idx = i /\ i <= NumLines

\* C7: a line scanned before the first hunk header of its diff section (from
\* the start of the document, or since the last commit or `diff --git ` line)
\* creates or extends no DraftComment, and it leaves the position counter
\* alone unless it is the hunk header that ends this period.
C7_StrayTextDropped ==
    [][(Scanning(idx) /\ ~AfterFirstHunk(idx)) =>
          /\ review'.Comments = review.Comments
          /\ ~IsHunkLine(idx) => (num' = num /\ ~foundFirstHunk')]_vars

\* free text typed after a commit line that follows a counted hunk was scanned
\* and dropped
C7_Witness ==
    /\ pc = "parse" /\ idx > 2 /\ idx - 1 <= NumLines
    /\ LineText(idx - 1) \in FreeText /\ Visible(idx - 1)
    /\ ~AfterFirstHunk(idx - 1)
    /\ \E j \in 1..(idx - 2) : IsHunkLine(j)
    /\ num > 0 /\ review.Comments = <<>>

-----------------------------------------------------------------------------
(* C9: lines between the inline markers *)

\* line i lies between an inline start marker and the following end marker
BetweenInline(i) ==
    /\ ~IsInlineMarker(i)
    /\ \E j \in 1..(i - 1) :
          /\ LineText(j) = inlineStartMarker
          /\ \A m \in (j + 1)..(i - 1) : ~IsInlineMarker(m)
    /\ \E k \in (i + 1)..NumLines :
          /\ LineText(k) = inlineEndMarker
          /\ \A m \in (i + 1)..(k - 1) : ~IsInlineMarker(m)

\* C9 as claimed: no line between an inline start marker and the following
\* inline end marker creates or extends a DraftComment, whatever its first
\* character.
C9_InlineBlockSkipped ==
    [][(Scanning(idx) /\ BetweenInline(idx)) =>
          review'.Comments = review.Comments]_vars

\* C9 as amended: a line between the inline markers that starts with `*` or a
\* tab creates or extends no DraftComment.
C9_EchoedLinesSkipped ==
    [][(Scanning(idx) /\ BetweenInline(idx)
           /\ FirstCharIn(LineText(idx), {"*", "\t"})) =>
          review'.Comments = review.Comments]_vars

\* an echoed line between the markers was scanned inside a hunk, where free
\* text would have opened a comment
C9_Witness ==
    /\ pc = "parse" /\ idx > 1 /\ BetweenInline(idx - 1)
    /\ FirstCharIn(LineText(idx - 1), {"\t"})
    /\ Visible(idx - 1) /\ AfterFirstHunk(idx - 1)
    /\ review.Comments = <<>>

-----------------------------------------------------------------------------
(* C10: totality of parseFile *)

\* a thread-id line, read outside the top-level region, whose number does not
\* fit in an int
OverflowLine(i) ==
    /\ ~IsTopLevelMarker(i) /\ ~InTopLevel(i)
    /\ ThreadIdMatches(LineText(i))
    /\ AtoiFails(ThreadIdCapture(LineText(i)))

\* C10 as claimed: parseFile never panics and always returns a request and a
\* nil error.
C10_Total == pc # "panic" /\ (pc = "done" => (err = "nil" /\ Request # Nil))

\* C10 as amended: parseFile never panics; it returns a request and a nil
\* error unless the document holds a thread-id line whose number overflows
\* int, and then it returns no request and the conversion error.
C10_TotalUnlessOverflow ==
    /\ pc # "panic"
    /\ pc = "done" =>
          IF \E i \in 1..NumLines : OverflowLine(i)
          THEN err = "value out of range" /\ Request = Nil
          ELSE err = "nil" /\ Request = Ptr(review)

C10_Witness ==
    /\ pc = "done" /\ err = "value out of range" /\ Request = Nil
    /\ \E i \in 1..NumLines : OverflowLine(i) /\ idx = i + 1

-----------------------------------------------------------------------------
(* C2, C3: the round trip through an untouched template *)

\* C2: parseFile on the template as the encoder wrote it returns no
\* DraftComment and no top-level body.
C2_RoundTrip ==
    (pc = "done" /\ dat = buf) =>
        (err = "nil" /\ review.Comments = <<>> /\ review.Body = Nil)

\* C3: after every line of the untouched template that was copied from the
\* diff, the decoder holds the cursor the encoder held after that diff line.
C3_PositionEquivalence ==
    (pc = "parse" /\ dat = buf /\ idx > 1 /\ idx - 1 <= Len(origin)) =>
        (origin[idx - 1] # 0 =>
            Cursor(commit, file, foundFirstHunk, num) = encTrace[origin[idx - 1]])

-----------------------------------------------------------------------------
(* C8: reset on a revision boundary *)

EncCommitLines(i) == {j \in 1..i : HasPrefix(diffLines[j], "commit ")}
EncHunkLines(a, b) == {m \in a..b : HasPrefix(diffLines[m], "@@")}

\* among the diff lines 1..i the last commit line is not yet followed by a
\* hunk header
EncCommitPending(i) ==
    EncCommitLines(i) # {} /\ EncHunkLines(MaxOf(EncCommitLines(i)) + 1, i) = {}

\* diff lines since the first hunk header that follows the last commit line
EncSinceHunk(i) == i - MinOf(EncHunkLines(MaxOf(EncCommitLines(i)) + 1, i))

\* the same for the lines 1..i of the document
DecCommitLines(i) == {j \in 1..i : IsCommitLine(j)}
DecHunkLines(a, b) == {m \in a..b : IsHunkLine(m)}

DecCommitPending(i) ==
    DecCommitLines(i) # {} /\ DecHunkLines(MaxOf(DecCommitLines(i)) + 1, i) = {}

DecSinceHunk(i) == i - MinOf(DecHunkLines(MaxOf(DecCommitLines(i)) + 1, i))

\* the encoder copies line i of the diff in the next step
EncScanning(i) == pc = "encode" /\ encIdx = i /\ i <= Len(diffLines)
                     /\ diffLines[i] # ""

\* C8: in the encoder loop and in parseFile, after a commit line the cursor
\* is outside a hunk until the next line starting with `@@`, which restarts
\* the position at 0; until then no index lookup is made and no DraftComment
\* is created, and afterwards every lookup and every new DraftComment uses a
\* position counted from that hunk header.
C8_ResetOnCommit ==
    /\ [](/\ (pc = "encode" /\ EncCommitPending(encIdx - 1)) => ~encFoundFirstHunk
          /\ (pc = "parse" /\ DecCommitPending(idx - 1)) => ~foundFirstHunk)
    /\ [][/\ EncScanning(encIdx) =>
                /\ EncCommitPending(encIdx - 1) =>
                      /\ lookups' = lookups
                      /\ HasPrefix(diffLines[encIdx], "@@") => encNum' = 0
                /\ lookups' # lookups =>
                      /\ Len(lookups') = Len(lookups) + 1
                      /\ lookups'[Len(lookups')][3] <= EncSinceHunk(encIdx)
          /\ Scanning(idx) =>
                /\ DecCommitPending(idx - 1) =>
                      /\ review'.Comments = review.Comments
                      /\ IsHunkLine(idx) => num' = 0
                /\ Len(review'.Comments) > Len(review.Comments) =>
                      review'.Comments[Len(review'.Comments)].Position[1]
                          <= DecSinceHunk(idx)]_vars

\* a second commit follows a file that had reached position 1; its first
\* diff line is looked up, and commented on, at position 1 again
C8_Witness ==
    /\ pc = "done"
    /\ lookups = << <<"c1", "a.txt", 1>>, <<"c2", "a.txt", 1>> >>
    /\ LineText(NumLines) = "nice"
    /\ review.Comments = <<[Path |-> Ptr("a.txt"), Position |-> Ptr(1),
                            Body |-> Ptr("nice")]>>
    /\ review.CommitID = Ptr("c2")

-----------------------------------------------------------------------------
(* C11: the existing-comment index *)

\* keys of the index: those of the listed comments and some never put
IndexKeys == {"c1", "c2", "c3"} \X {"a.txt", "b.txt"} \X (0..2)

\* the comments put so far under key k that carry a position
PutUnder(k) ==
    SelectSeq(putLog, LAMBDA c : /\ c.Position # Nil
                                 /\ c.CommitID = k[1] /\ c.Path = k[2]
                                 /\ c.Position[1] = k[3])

Lookup(c, k) == Get(c, k[1], k[2], k[3])

IsPrefixOf(a, b) == Len(a) <= Len(b) /\ SubSeq(b, 1, Len(a)) = a

\* C11: after any sequence of put calls, get returns for every key exactly
\* the comments put under that key with a non-nil Position, in insertion
\* order, and nothing for a key never put; a put with nil Position leaves the
\* index unchanged; no put removes or reorders what is stored; and the
\* lookups of the encoder leave the index unchanged.
C11_Index ==
    /\ [](\A k \in IndexKeys : Lookup(reviewComments, k) = PutUnder(k))
    /\ [][/\ (Len(putLog') > Len(putLog) /\ putLog'[Len(putLog')].Position = Nil)
                => reviewComments' = reviewComments
          /\ \A k \in IndexKeys :
                IsPrefixOf(Lookup(reviewComments, k), Lookup(reviewComments', k))
          /\ lookups' # lookups => reviewComments' = reviewComments]_vars

\* two comments were put under one key, the older one first, and the encoder
\* has looked that key up
C11_Witness ==
    /\ pc = "edit"
    /\ Len(putLog) = 2
    /\ Len(Lookup(reviewComments, <<"c1", "a.txt", 1>>)) = 2
    /\ Lookup(reviewComments, <<"c1", "a.txt", 1>>)[1].ID = 7
    /\ <<"c1", "a.txt", 1>> \in {lookups[i] : i \in 1..Len(lookups)}

-----------------------------------------------------------------------------
(* C18: the barrier of makeReviewTemplate *)

\* goroutine g has called wg.Done
CalledDone(g) == gpc[g] = "end"

\* goroutine g has called showWg.Done
CalledShowDone(g) == gpc[g] \in {"wgDone", "end"}

\* C18: printPR and the encoder loop start only after all six goroutines have
\* called wg.Done, and the `git show` task gets past showWg.Wait only after the
\* pull-request fetch and the ref fetch have completed, so that it never
\* dereferences a nil pr.
C18_Barrier ==
    /\ pc \in {"print", "encode", "edit"} => \A g \in Goroutines : CalledDone(g)
    /\ gpc["gitShow"] # "wait" =>
          (pr # Nil /\ CalledShowDone("getPR") /\ CalledShowDone("gitFetch"))
    /\ pc # "panic"

C18_Witness ==
    /\ pc = "edit" /\ diffBuf # "" /\ pr # Nil /\ wg = 0 /\ showWg = 0

-----------------------------------------------------------------------------
(* C20: which top-level entries printPR renders *)

IsBlank(t) == \A i \in 1..Len(t) : Char(t, i) \in WhiteSpace

MarkerAt(t, i) == Sub(t, i, i + Len(reviewableStart) - 1) = reviewableStart

HasMarker(t) == \E i \in 1..Len(t) : MarkerAt(t, i)

\* t is the boilerplate marker surrounded by nothing but white space
OnlyMarker(t) ==
    \E i \in 1..Len(t) :
        /\ MarkerAt(t, i)
        /\ IsBlank(Sub(t, 1, i - 1))
        /\ IsBlank(Sub(t, i + Len(reviewableStart), Len(t)))

\* the template holds the heading line of the entry written by `author`
Rendered(author) == Contains(buf, (" by " \o author) \o " (")

Printed == pc \in {"encode", "edit"}

\* C20: an entry is skipped if and only if its trimmed body is empty or is the
\* boilerplate marker alone.
C20_SoleMarkerSkipped ==
    Printed =>
        \A i \in 1..Len(topLevelComments) :
            ~Rendered(topLevelComments[i].author)
                <=> (IsBlank(topLevelComments[i].body)
                        \/ OnlyMarker(topLevelComments[i].body))

\* C20 as the code has it: an entry is skipped if and only if its trimmed
\* body is empty or contains the boilerplate marker anywhere.
C20_MarkerEntriesSkipped ==
    Printed =>
        \A i \in 1..Len(topLevelComments) :
            ~Rendered(topLevelComments[i].author)
                <=> (IsBlank(topLevelComments[i].body)
                        \/ HasMarker(topLevelComments[i].body))

\* a review with a body was rendered, and an issue comment holding the marker
\* together with other text was skipped
C20_Witness ==
    /\ Printed
    /\ \E i, j \in 1..Len(topLevelComments) :
          /\ Rendered(topLevelComments[i].author)
          /\ HasMarker(topLevelComments[j].body)
          /\ ~OnlyMarker(topLevelComments[j].body)
          /\ ~Rendered(topLevelComments[j].author)

-----------------------------------------------------------------------------
(* C19: wrap *)

\* the lines of a text, without their line breaks
LinesOf(t) ==
    LET nl == Sorted({i \in 1..Len(t) : Char(t, i) = "\n"})
        k == Len(nl)
    IN [j \in 1..(k + 1) |->
           Sub(t, IF j = 1 THEN 1 ELSE nl[j - 1] + 1,
                  IF j = k + 1 THEN Len(t) ELSE nl[j] - 1)]

\* the first line of the input, without the "\r" of a "\r\n" line break
FirstInputLine ==
    LET l == LinesOf(wrapT)[1]
    IN IF Len(LinesOf(wrapT)) > 1 /\ Len(l) > 0 /\ Char(l, Len(l)) = "\r"
       THEN SubSeq(l, 1, Len(l) - 1) ELSE l

\* where a line longer than 70 characters is to be broken: after the last
\* space among its first 70 characters, or after 70 characters
BreakAfter(l) ==
    LET S == {i \in 1..70 : Char(l, i) = " "}
    IN IF S = {} THEN 70 ELSE MaxOf(S)

-----------------------------------------------------------------------------
(* The submission loop: what the claims say about its inputs *)

\* first character of the last line read at the menu
Key == Char(text, 1)

\* the loop is at its head after the menu has read a line
AfterMenu == pc = "loop" /\ nInputs > 0

\* the request carries the body and the comments of the last successful decode
FromLastDecode ==
    /\ request # Nil /\ lastDecoded # Nil
    /\ request[1].Body = lastDecoded[1].Body
    /\ request[1].Comments = lastDecoded[1].Comments

-----------------------------------------------------------------------------
(* C12: submit outcomes *)

\* C12: review returns only after menu input y, a, r or d, with Event
\* COMMENT, APPROVE, REQUEST_CHANGES or nil respectively, and the returned
\* request has the body and the comments of the most recent successful decode.
C12_SubmitOutcome ==
    pc \in {"returned", "end"} =>
        /\ Key \in {"y", "a", "r", "d"}
        /\ FromLastDecode
        /\ request[1].Event = CASE Key = "y" -> <<"COMMENT">>
                                 [] Key = "a" -> <<"APPROVE">>
                                 [] Key = "r" -> <<"REQUEST_CHANGES">>
                                 [] Key = "d" -> <<>>

\* after a second edit the review is submitted with "request changes"
C12_Witness ==
    /\ pc = "returned" /\ text = "r\n" /\ editorRuns = 2
    /\ request[1].Event = <<"REQUEST_CHANGES">>
    /\ Len(request[1].Comments) = 1
    /\ tmpFile = Nil

-----------------------------------------------------------------------------
(* C13: which inputs re-open the editor *)

Recognized == {"y", "a", "r", "d", "s", "p", "e", "q", "?"}

\* the menu is entered only after a successful decode, or without any edit
MenuEntry ==
    [][(pc' = "menu" /\ pc # "menu") =>
          \/ pc = "loop" /\ ~editReview
          \/ pc = "done" /\ err = "nil" /\ decodeRuns' = decodeRuns + 1]_vars

\* C13: after menu input 'e', and after every unrecognized input, the editor
\* is opened again and the decoder runs again before the menu is shown.
C13_UnrecognizedReEdits ==
    /\ [][(AfterMenu /\ (Key = "e" \/ Key \notin Recognized)) => pc' = "editor"]_vars
    /\ MenuEntry

\* C13 as the code has it: after menu input 'e' the editor is opened again
\* and the decoder runs again before the menu is shown; after '?' and after
\* every unrecognized input the menu is shown again with the same request,
\* and neither the editor nor the decoder runs.
C13_EditReEdits ==
    /\ [][/\ (AfterMenu /\ Key = "e") => pc' = "editor"
          /\ (AfterMenu /\ (Key = "?" \/ Key \notin Recognized)) =>
                /\ pc' = "menu" /\ request' = request
                /\ editorRuns' = editorRuns /\ decodeRuns' = decodeRuns]_vars
    /\ MenuEntry

\* the menu is shown after 'e' led to a second edit and decode, and an
\* unrecognized input then led to none
C13_Witness ==
    /\ pc = "menu" /\ text = "x\n" /\ nInputs = 2
    /\ editorRuns = 2 /\ decodeRuns = 2

-----------------------------------------------------------------------------
(* C14: preview *)

\* C14: menu input 'p' leads back to the menu without an editor run or a
\* decoder run, and the request offered there is the one offered before.
C14_PreviewKeepsRequest ==
    [][/\ (pc = "menu" /\ pc' = "loop" /\ Char(text', 1) = "p") =>
             (request' = request /\ tmpFile' = tmpFile)
       /\ (AfterMenu /\ Key = "p") =>
             /\ pc' = "menu" /\ request' = request /\ tmpFile' = tmpFile
             /\ editorRuns' = editorRuns /\ decodeRuns' = decodeRuns]_vars

C14_Witness ==
    /\ pc = "menu" /\ text = "p\n" /\ editorRuns = 1 /\ decodeRuns = 1
    /\ FromLastDecode

-----------------------------------------------------------------------------
(* C15: cleanup *)

\* C15: whenever the loop has ended, by a return or by the end of the
\* process, the temporary document file has been removed.
C15_CleanupOnEveryExit ==
    pc \in {"returned", "exit", "end"} => tmpFile = Nil

-----------------------------------------------------------------------------
(* C16: failure handling of parseFileUntilSuccess *)

\* C16: after a failed editor run or a failed decode the "edit again?" prompt
\* follows, and from it only a new editor run or the end of the process; the
\* menu is reached only with the request of a successful decode; and the file
\* changes only when the editor runs or when review returns.
C16_FailureHandling ==
    /\ [](pc = "menu" => FromLastDecode)
    /\ [][/\ pc = "prompt" => pc' \in {"editor", "exit"}
          /\ (pc = "editor" /\ pc' # "parse") => pc' = "prompt"
          /\ (pc = "done" /\ err # "nil") => (pc' = "prompt" /\ request' = request)
          /\ (pc' = "menu" /\ pc \notin {"menu", "loop"}) =>
                (pc = "done" /\ err = "nil")
          /\ tmpFile' # tmpFile => (pc = "editor" \/ pc' = "returned")]_vars

\* the menu is reached after a failed editor run, a failed decode and two
\* answers to the prompt
C16_Witness ==
    /\ pc = "menu" /\ editorRuns = 3 /\ decodeRuns = 2 /\ nInputs = 2
    /\ FromLastDecode

-----------------------------------------------------------------------------
(* C17: posting a request without comments *)

\* C17: every request returned by the submission loop is passed to
\* CreateReview, whether or not it has comments.
C17_EmptyRequestSent ==
    pc = "end" => posted = <<request[1]>>

-----------------------------------------------------------------------------
(* C21: the position counting rule *)

DiffChars == {"+", "-", " ", "@"}

EncIsResetLine(j) ==
    HasPrefix(diffLines[j], "commit ") \/ HasPrefix(diffLines[j], "diff --git ")
EncIsHunkLine(j) == HasPrefix(diffLines[j], "@@")
EncIsFileLine(j) == HasPrefix(diffLines[j], "+++ b/")

\* the lines of the diff before line i that start or end the period before
\* the first hunk
EncBoundaries(i) == {j \in 1..(i - 1) : EncIsHunkLine(j) \/ EncIsResetLine(j)}
DecBoundaries(i) == {j \in 1..(i - 1) : IsHunkLine(j) \/ IsResetLine(j)}

\* a hunk header precedes line i of the diff in its diff section
EncAfterFirstHunk(i) ==
    EncBoundaries(i) # {} /\ EncIsHunkLine(MaxOf(EncBoundaries(i)))

\* C21: in the encoder loop and in parseFile, the first line starting with
\* `@@` of a diff section sets the position to 0; after it, every line whose
\* first character is +, -, space or @ (a later hunk header included) adds
\* exactly one; a file-header line leaves the position alone; and the position
\* decreases only at the first hunk header that follows a commit-header or
\* `diff --git ` line.
C21_PositionCounting ==
    [][/\ EncScanning(encIdx) =>
             /\ (EncIsHunkLine(encIdx) /\ ~EncAfterFirstHunk(encIdx)) => encNum' = 0
             /\ (/\ EncAfterFirstHunk(encIdx)
                 /\ FirstCharIn(diffLines[encIdx], DiffChars)
                 /\ ~EncIsFileLine(encIdx)) => encNum' = encNum + 1
             /\ EncIsFileLine(encIdx) => encNum' = encNum
             /\ encNum' < encNum =>
                    /\ EncIsHunkLine(encIdx) /\ EncBoundaries(encIdx) # {}
                    /\ EncIsResetLine(MaxOf(EncBoundaries(encIdx)))
       /\ Scanning(idx) =>
             /\ (IsHunkLine(idx) /\ ~AfterFirstHunk(idx)) => num' = 0
             /\ (/\ AfterFirstHunk(idx) /\ Visible(idx)
                 /\ FirstCharIn(lines[idx], DiffChars)
                 /\ ~IsFileLine(idx)) => num' = num + 1
             /\ IsFileLine(idx) => num' = num
             /\ num' < num =>
                    /\ IsHunkLine(idx) /\ DecBoundaries(idx) # {}
                    /\ IsResetLine(MaxOf(DecBoundaries(idx)))]_vars

\* in the second commit of a diff the first hunk header restarted the count
\* and a later hunk header was counted, by the encoder and by parseFile
C21_Witness ==
    /\ pc = "done" /\ err = "nil"
    /\ Len(lookups) >= 3
    /\ lookups[1] = <<"c1", "a.txt", 1>>
    /\ lookups[Len(lookups)] = <<"c2", "a.txt", 2>>
    /\ EncIsHunkLine(Len(diffLines) - 1)
    /\ commit = "c2" /\ num = 2

-----------------------------------------------------------------------------
(* C22: positions start at 1 *)

\* C22: every DraftComment parseFile has produced has a position of at least 1.
C22_PositionsFromOne ==
    \A k \in 1..Len(review.Comments) : review.Comments[k].Position[1] >= 1

-----------------------------------------------------------------------------
(* C23: a commit boundary and the current file *)

\* C23: in the encoder loop and in parseFile, once a commit line has been
\* read, every index lookup and every new DraftComment uses a file path taken
\* from a `+++ b/<path>` line that follows the last commit line.
C23_CommitResetsFile ==
    [][/\ (/\ EncScanning(encIdx) /\ lookups' # lookups
           /\ EncCommitLines(encIdx) # {}) =>
             \E j \in (MaxOf(EncCommitLines(encIdx)) + 1)..encIdx :
                 /\ EncIsFileLine(j)
                 /\ lookups'[Len(lookups')][2]
                        = FileCapture(TrimRight(diffLines[j], "\n"))
       /\ (/\ Scanning(idx) /\ Len(review'.Comments) > Len(review.Comments)
           /\ DecCommitLines(idx) # {}) =>
             \E j \in (MaxOf(DecCommitLines(idx)) + 1)..idx :
                 /\ IsFileLine(j)
                 /\ review'.Comments[Len(review'.Comments)].Path
                        = Ptr(FileCapture(LineText(j)))]_vars

-----------------------------------------------------------------------------
(* C28: the commit id of the request *)

\* C28: the request parseFile returns carries, for each of its DraftComments,
\* the id of the last commit line above the line where the comment was typed.
C28_CommitOfRequest ==
    (pc = "done" /\ err = "nil" /\ review.Comments # <<>>) =>
        \A a \in RunStarts :
            DecCommitLines(a) # {} =>
                review.CommitID
                    = Ptr(CommitCapture(LineText(MaxOf(DecCommitLines(a)))))

-----------------------------------------------------------------------------
(* C29: bodies at the end of the input *)

\* C29: the body of every DraftComment is exactly its free-text lines joined
\* by line breaks, and the top-level body is exactly the text between the
\* markers (followed by the signature line parseFile appends), whether or not
\* the last line of the document ends with a line break.
C29_BodyExact ==
    (pc = "done" /\ err = "nil") =>
        /\ CommentBodies = RunBodies
        /\ \A i, j \in 1..NumLines :
               WellFormedPair(i, j) =>
                   review.Body = IF JoinText(i + 1, j - 1) = "" THEN Nil
                                 ELSE Ptr(JoinText(i + 1, j - 1) \o reviewSuffix)

-----------------------------------------------------------------------------
(* C24: lines inside the top-level region *)

\* C24: a line scanned between a begin marker and the next end marker leaves
\* the commit, the file, foundFirstHunk, the position and the captured thread
\* id as they are, and it creates or extends no DraftComment.
C24_RegionNotInterpreted ==
    [][(Scanning(idx) /\ InTopLevel(idx)) =>
          /\ commit' = commit /\ file' = file /\ num' = num
          /\ foundFirstHunk' = foundFirstHunk
          /\ lastInlineCommentId' = lastInlineCommentId
          /\ review'.Comments = review.Comments
          /\ review'.CommitID = review.CommitID]_vars

\* inside the first hunk, a commit line and free text were typed after a
\* begin marker: the scan ended with the cursor of the hunk and no comment
C24_Witness ==
    /\ pc = "done" /\ NumLines = 5
    /\ LineText(3) = topLevelStartMarker
    /\ LineText(4) = commitLine2 /\ LineText(5) = "nice"
    /\ commit = "" /\ file = "a.txt" /\ foundFirstHunk /\ num = 0
    /\ review.Comments = <<>> /\ review.CommitID = Nil

-----------------------------------------------------------------------------
(* C25: echoed-comment lines *)

\* line i starts with `*` or a tab and follows the first hunk header of its
\* diff section
IsEchoLine(i) == FirstCharIn(lines[i], {"*", "\t"}) /\ AfterFirstHunk(i)

-----------------------------------------------------------------------------
(* C26: inline blocks written by the encoder *)

\* what the step has appended to the template after the diff line itself
WrittenAfter(raw) == SubSeq(buf', Len(buf) + Len(raw) + 1, Len(buf'))

\* line i of the diff is not counted: a commit, `diff --git ` or file-header
\* line, the first hunk header of its section, or a line before it
EncNotCounted(i) ==
    EncIsResetLine(i) \/ EncIsFileLine(i) \/ ~EncAfterFirstHunk(i)

\* C26: the encoder copies each diff line and, when the line is counted and
\* comments were put under (commit, file, position), writes right below it the
\* start marker, one sub-block per comment in the order they were put, and the
\* end marker; it writes nothing below a line that is not counted or whose
\* key holds no comment.
C26_InlineBlocks ==
    [][EncScanning(encIdx) =>
          LET raw == diffLines[encIdx]
              at == PutUnder(<<encCommit', encFile', encNum'>>)
          IN /\ IsPrefixOf(buf \o raw, buf')
             /\ EncNotCounted(encIdx) <=> encNum' # encNum + 1
             /\ WrittenAfter(raw)
                   = IF ~EncNotCounted(encIdx) /\ at # <<>>
                     THEN ((inlineStartMarker \o "\n") \o CommentBlocks(at))
                              \o (inlineEndMarker \o "\n")
                     ELSE ""]_vars

\* two comments were listed for the first line of a.txt in c1: the template
\* holds one block with both, the older one first
C26_Witness ==
    /\ pc = "edit"
    /\ Len(PutUnder(<<"c1", "a.txt", 1>>)) = 2
    /\ Contains(buf, ((("+bar\n" \o inlineStartMarker) \o "\n")
                         \o CommentBlocks(PutUnder(<<"c1", "a.txt", 1>>)))
                        \o (inlineEndMarker \o "\n"))

-----------------------------------------------------------------------------
(* C27: thread ids *)

\* every DraftComment has a path and a position and nothing else but its body
AnchoredComments ==
    \A k \in 1..Len(review.Comments) :
        /\ DOMAIN review.Comments[k] = {"Path", "Position", "Body"}
        /\ review.Comments[k].Path # Nil
        /\ review.Comments[k].Position # Nil

\* a line matching the thread-id pattern creates and extends no DraftComment
\* and leaves the position alone
ThreadLineInert ==
    (Scanning(idx) /\ ThreadIdMatches(LineText(idx))) =>
        (review'.Comments = review.Comments /\ num' = num)

\* C27 as claimed: every DraftComment has path and position and no reply-to
\* id; a thread-id line creates and extends no DraftComment and does not
\* advance the position; the captured thread id is cleared at every inline
\* end marker.
C27_ThreadNotWired ==
    /\ []AnchoredComments
    /\ [][/\ ThreadLineInert
          /\ (Scanning(idx) /\ LineText(idx) = inlineEndMarker)
                => lastInlineCommentId' = "0"]_vars

\* C27 as amended: the captured thread id is cleared at every inline end
\* marker outside the top-level region.
C27_ThreadNotWiredOutsideRegion ==
    /\ []AnchoredComments
    /\ [][/\ ThreadLineInert
          /\ (/\ Scanning(idx) /\ LineText(idx) = inlineEndMarker
              /\ ~InTopLevel(idx)) => lastInlineCommentId' = "0"]_vars

\* a thread-id line, free text below it and the inline end marker: the
\* comment is anchored to file and position, and the thread id is cleared
C27_Witness ==
    /\ pc = "done" /\ NumLines = 5
    /\ LineText(3) = threadLine /\ LineText(4) = "nice"
    /\ LineText(5) = inlineEndMarker
    /\ Len(review.Comments) = 1
    /\ review.Comments[1].Path = Ptr("a.txt")
    /\ review.Comments[1].Position # Nil
    /\ lastInlineCommentId = "0"

-----------------------------------------------------------------------------
(* C30: the barrier lets the encoder start *)

Prerequisites == {"getPR", "gitFetch"}

\* each counter is what it was set to less the tasks that have called Done
CountersMatch ==
    /\ wg = 6 - Cardinality({g \in Goroutines : CalledDone(g)})
    /\ showWg = 2 - Cardinality({g \in Prerequisites : CalledShowDone(g)})
    /\ wg >= 0 /\ showWg >= 0

\* C30: every task calls wg.Done once and each of the two prerequisite tasks
\* calls showWg.Done once, so that no counter goes below zero; and unless a
\* call fails, which ends the process, wg.Wait returns and the encoder starts.
C30_BarrierLiveness ==
    /\ [](pc \in {"fetch", "print", "encode", "edit"} => CountersMatch)
    /\ [][\A g \in Goroutines :
             /\ (gpc # <<>> /\ CalledDone(g)) => CalledDone(g)'
             /\ (gpc # <<>> /\ CalledShowDone(g)) => CalledShowDone(g)']_vars
    /\ [][pc = "print" => pc' = "encode"]_vars
    /\ <>(pc = "exit" \/ pc = "print")

\* no call has failed, the `git show` task has waited for the two fetches,
\* all six tasks are done and the encoder is running
C30_Witness ==
    /\ pc = "encode" /\ wg = 0 /\ showWg = 0
    /\ \A g \in Goroutines : CalledDone(g)
    /\ pr # Nil /\ diffBuf # ""

-----------------------------------------------------------------------------
(* C31: the accesses to the variables the goroutines share *)

SharedNames == {"pr", "reviews", "issueComments", "reviewComments", "diffBuf"}

\* the goroutine whose body assigns the variable
Writer(v) ==
    CASE v = "pr" -> "getPR"
      [] v = "reviews" -> "listReviews"
      [] v = "issueComments" -> "listIssueComments"
      [] v = "reviewComments" -> "listComments"
      [] v = "diffBuf" -> "gitShow"

\* the step writes the variable
Written(v) ==
    CASE v = "pr" -> pr' # pr
      [] v = "reviews" -> reviews' # reviews
      [] v = "issueComments" -> issueComments' # issueComments
      [] v = "reviewComments" -> reviewComments' # reviewComments
      [] v = "diffBuf" -> diffBuf' # diffBuf

\* the step is one of goroutine g: nobody else moves
StepOfGoroutine(g) ==
    /\ pc' = pc
    /\ \A h \in Goroutines \ {g} : gpc'[h] = gpc[h]

\* the main flow is past wg.Wait and reads the shared variables
MainReads == pc \in {"print", "encode"}

\* the step produces something the main flow computes from the shared variables
MainOutput ==
    \/ topLevelComments' # topLevelComments
    \/ buf' # buf
    \/ diffLines' # diffLines
    \/ lookups' # lookups

\* C31: each shared variable is written by one goroutine only, before that
\* goroutine calls Done; the `git show` task reads pr only after the pull-request
\* fetch has called showWg.Done, and pr is not written again; the main flow
\* reads the shared variables only after wg.Wait has returned with all six
\* goroutines done, and nothing is written from then on; in particular every put
\* on the index precedes the first get.
C31_RaceFree ==
    /\ [][\A v \in SharedNames :
             Written(v) => /\ StepOfGoroutine(Writer(v))
                           /\ ~CalledDone(Writer(v))
                           /\ ~CalledDone(Writer(v))']_vars
    /\ [](gpc["gitShow"] = "run" => CalledShowDone("getPR"))
    /\ [][CalledShowDone("getPR") => pr' = pr]_vars
    /\ [](MainReads => \A g \in Goroutines : CalledDone(g))
    /\ [][MainOutput => MainReads]_vars
    /\ [][MainReads => \A v \in SharedNames : ~Written(v)]_vars
    /\ [](lookups # <<>> => (gpc["listComments"] = "end" /\ page = <<>>))
    /\ [][lookups # <<>> => putLog' = putLog]_vars

\* every shared variable has been written, and the encoder has looked up the
\* index after the puts
C31_Witness ==
    /\ pc = "encode"
    /\ pr # Nil /\ reviews # <<>> /\ issueComments # <<>> /\ diffBuf # ""
    /\ Len(putLog) >= 2
    /\ lookups # <<>>
    /\ \A g \in Goroutines : CalledDone(g)

====
